---- MODULE Spec2Model ----
(***************************************************************************)
(* Model of the client-side entity store of the Telegram CRM dashboard:    *)
(* the AppProvider state (managers, chats, accounts, transfer records),    *)
(* its localStorage copy, the boot effect with the schema migration, the   *)
(* React effects that repair and seed the collections, and the transfer    *)
(* form of TransfersManager.                                               *)
(*                                                                         *)
(* React scheduling: a handler runs on the rendered state; the render that *)
(* follows it schedules, in declaration order, every effect one of whose   *)
(* dependencies was set.  The effects of one commit read the values of     *)
(* that render (snap); their state updaters run on the latest state.       *)
(***************************************************************************)
EXTENDS Integers, Sequences, FiniteSets, TLC

VARIABLES
    now,              \* the last value read from Date.now() / new Date()
    ls,               \* localStorage: key -> [k: kind, v: parsed value]
    managers,         \* useState<Manager[]>
    activeManager,    \* useState<Manager | null>, by id (NoId = null)
    chats,            \* useState<Chat[]>
    accounts,         \* useState<Account[]>
    transferRecords,  \* useState<TransferRecord[]>
    form,             \* TransfersManager form state
    editing,          \* TransfersManager: id of the record being edited
    isFormOpen,       \* TransfersManager: form shown
    formError,        \* TransfersManager: form error shown
    pending,          \* effects still to run in the current commit
    snap,             \* values of the render the pending effects closed over
    touched,          \* states set by the effects of the current commit
    crashed,          \* an effect threw: the tree is unmounted
    lastOp,           \* history: the operation that made the last step
    before,           \* history: collections before the last operation
    upserts,          \* history: the current run of createAccountFromChat calls
    repairSeen,       \* history: managers the last repair pass ran with
    migRuns,          \* history: number of migrateToManagers runs
    migFirst,         \* history: persisted store after the first migration run
    isAuthenticated,  \* AuthProvider useState(false); AppProvider is mounted iff TRUE
    authPc,           \* AuthProvider: the request checkAuth / login / logout waits for
    keywords,         \* useState<string[]>, each string a sequence of characters
    configMigrating,  \* migrateConfigToServer: the request it waits for ("idle": none)
    activeBusinessChat, \* useState<BusinessChat | null>, by id (NoId = null)
    messagesOf,       \* businessMessages, by the chat they were loaded for
    sending,          \* sendBusinessMessage calls in flight, by the chat of their closure
    inflight,         \* message loads in flight, by the chat requested
    chatMembers,      \* useState<ChatMember[]>
    reading,          \* BulkKeywordImport: a FileReader at work and the keywords its onload closed over
    apiConfig,        \* useState<ApiConfig>({}), by where its value came from
    configLoading,    \* a loadApiConfigFromServer call of this mount is waiting for the server
    serverConfig,     \* the server holds an API config
    sendTimer,        \* sendMessage: its timer is set, and prevChatsRef.current when it was set
    activeChat,       \* useState<Chat | null>(null): the chat object selected (NoChat = null)
    processedRef,     \* ChatMessages: processedRef.current of the mounted instance
    loginLocked,      \* AuthProvider: useState(false)
    loginMeta,        \* login: the attempts of the meta it read when it started
    rejected          \* history: logins the server rejected since the last success or lock expiry

vars == <<now, ls, managers, activeManager, chats, accounts, transferRecords,
          form, editing, isFormOpen, formError, pending, snap, touched,
          crashed, lastOp, before, upserts, repairSeen, migRuns, migFirst,
          isAuthenticated, authPc, keywords, configMigrating,
          activeBusinessChat, messagesOf, sending, inflight, chatMembers, reading,
          apiConfig, configLoading, serverConfig, sendTimer,
          activeChat, processedRef, loginLocked, loginMeta, rejected>>

(* ------------------------------ bounds --------------------------------- *)
MaxLegacyId   == 2      \* ids 1..MaxLegacyId belong to records stored by earlier sessions
MaxTicks      == 1      \* clock ticks of one session
MaxTime       == MaxLegacyId + 1 + MaxTicks
MaxManagers   == 2
MaxChats      == 3
MaxAccounts   == 2
MaxMessages   == 3
MaxTransfers  == 2
MaxMigRuns    == 3
MaxHistory    == 2      \* username_history entries, where the names are the subject
MaxBusinessChats == 2   \* business chats of the active business account

(* ------------------------- values and helpers -------------------------- *)
NoId       == -1               \* undefined / null in a numeric field
AbsentN    == -2               \* key not present in a Partial<> (numeric)
Undefined  == "<undefined>"    \* undefined in a string field
AbsentS    == "<absent>"       \* key not present in a Partial<> (string)
EmptySel   == 0                \* '' in a numeric select of the transfer form

Ids(seq)   == {seq[i].id : i \in DOMAIN seq}
Filter(seq, Keep(_)) == SelectSeq(seq, Keep)
Map(seq, F(_)) == [i \in DOMAIN seq |-> F(seq[i])]
Truthy(s)  == s # Undefined /\ s # AbsentS /\ s # ""
\* a ?? b on numeric fields
Nullish(a, b) == IF a = NoId THEN b ELSE a
Max(S)     == CHOOSE x \in S : \A y \in S : y <= x
Min2(a, b) == IF a < b THEN a ELSE b

\* Date.now() gives the last value read or a later one
Clock      == now..MaxTime
StillClock == {now}

(* --------------------------- localStorage ------------------------------ *)
\* kinds of a stored value: "absent" (getItem gives null), "corrupt"
\* (JSON.parse throws), "null" (parses to null), "json" (parses to v)
Absent     == [k |-> "absent", v |-> <<>>]
Corrupt    == [k |-> "corrupt", v |-> <<>>]
JsonNull   == [k |-> "null", v |-> <<>>]
Json(v)    == [k |-> "json", v |-> v]
\* the schema marker and the seeding flag hold numbers; 0 = key absent
\* telegram_crm_login_meta; lockedUntil 0 = not set
\* no file is being read
\* no timer of sendMessage is set
NoTimer    == [set |-> FALSE, ref |-> <<>>]
NoRead     == [busy |-> FALSE, keywords |-> <<>>]

NoMeta     == [attempts |-> 0, lockedUntil |-> 0]
\* loggedIn: telegram_crm_logged_in is set
EmptyStore == [accounts |-> Absent, chats |-> Absent, managers |-> Absent,
               transfers |-> Absent, version |-> 0, seeded |-> 0,
               config |-> Absent, keywords |-> Absent, members |-> Absent,
               loggedIn |-> TRUE, meta |-> NoMeta]

\* a chat without a last_message
NoMessage == [id |-> NoId, from_me |-> FALSE]

\* activeChat = null
NoChat == [id |-> NoId, type |-> Undefined, username |-> Undefined,
           manager_id |-> NoId, account_id |-> NoId, last_message |-> NoMessage]

createMockChats(managerId) ==
    << [id |-> 1, type |-> "private", username |-> "johnsmith",
        manager_id |-> managerId, account_id |-> NoId,
        last_message |-> [id |-> 1, from_me |-> FALSE]],
       [id |-> 2, type |-> "private", username |-> "anna_j",
        manager_id |-> managerId, account_id |-> NoId,
        last_message |-> [id |-> 2, from_me |-> TRUE]],
       [id |-> 3, type |-> "group", username |-> Undefined,
        manager_id |-> managerId, account_id |-> NoId,
        last_message |-> [id |-> 3, from_me |-> FALSE]] >>

(* ------------------------- schema migration ---------------------------- *)
\* migrateToManagers as a function of the store and the clock: the managers
\* and chats it sets, the store it leaves, and whether it threw.
migrateToManagersAlwaysNew(store, t) ==
    LET parsedChats == store.chats.k \in {"json", "null"}
        existingChats == IF store.chats.k = "json" THEN store.chats.v ELSE <<>>
        stored == IF store.managers.k = "json" THEN store.managers.v ELSE <<>>
        created == TRUE
        mgrs == IF created THEN << [id |-> t] >> ELSE stored
        mid  == mgrs[1].id
        store1 == IF created THEN [store EXCEPT !.managers = Json(mgrs)] ELSE store
        migrated == Map(existingChats, LAMBDA c :
                        [c EXCEPT !.manager_id = Nullish(c.manager_id, Nullish(c.account_id, mid))])
        out  == IF migrated = <<>> THEN createMockChats(mid) ELSE migrated
    IN  IF store.managers.k = "null"
        THEN \* mgrs.length on null throws before anything is written
             [threw |-> TRUE, setManagers |-> FALSE, managers |-> <<>>,
              setChats |-> FALSE, chats |-> <<>>, store |-> store]
        ELSE IF store.chats.k = "null"
        THEN \* existingChats.map on null throws after the managers are set
             [threw |-> TRUE, setManagers |-> TRUE, managers |-> mgrs,
              setChats |-> FALSE, chats |-> <<>>, store |-> store1]
        ELSE [threw |-> FALSE, setManagers |-> TRUE, managers |-> mgrs,
              setChats |-> TRUE, chats |-> out,
              store |-> [store1 EXCEPT !.chats = Json(out), !.version = 3]]

migrateToManagers(store, t) ==
    LET parsedChats == store.chats.k \in {"json", "null"}
        existingChats == IF store.chats.k = "json" THEN store.chats.v ELSE <<>>
        stored == IF store.managers.k = "json" THEN store.managers.v ELSE <<>>
        created == stored = <<>>
        mgrs == IF created THEN << [id |-> t] >> ELSE stored
        mid  == mgrs[1].id
        store1 == IF created THEN [store EXCEPT !.managers = Json(mgrs)] ELSE store
        migrated == Map(existingChats, LAMBDA c :
                        [c EXCEPT !.manager_id = Nullish(c.manager_id, Nullish(c.account_id, mid))])
        out  == IF migrated = <<>> THEN createMockChats(mid) ELSE migrated
    IN  IF store.managers.k = "null"
        THEN \* mgrs.length on null throws before anything is written
             [threw |-> TRUE, setManagers |-> FALSE, managers |-> <<>>,
              setChats |-> FALSE, chats |-> <<>>, store |-> store]
        ELSE IF store.chats.k = "null"
        THEN \* existingChats.map on null throws after the managers are set
             [threw |-> TRUE, setManagers |-> TRUE, managers |-> mgrs,
              setChats |-> FALSE, chats |-> <<>>, store |-> store1]
        ELSE [threw |-> FALSE, setManagers |-> TRUE, managers |-> mgrs,
              setChats |-> TRUE, chats |-> out,
              store |-> [store1 EXCEPT !.chats = Json(out), !.version = 3]]

(* --------------------------- effect scheduling ------------------------- *)
EffectOrder == << "activeManagerInit", "legacyAccounts", "seedSecondManager", "repair" >>
Deps(e) ==
    CASE e = "activeManagerInit" -> {"managers", "activeManager"}
      [] e = "legacyAccounts"    -> {"managers", "accounts", "activeManager"}
      [] e = "seedSecondManager" -> {"managers", "chats"}
      [] e = "repair"            -> {"managers"}
      [] OTHER                   -> {}
\* the effect of ChatMessages, a child of the provider, runs before the
\* provider's own effects
Schedule(T) == (IF "activeChat" \in T THEN << "chatMessages" >> ELSE <<>>)
               \o SelectSeq(EffectOrder, LAMBDA e : Deps(e) \cap T # {})
MountEffects == << "initialLoad" >> \o EffectOrder \o << "chatMembersLoad" >>

Live == [managers |-> managers, chats |-> chats, accounts |-> accounts,
         activeManager |-> activeManager]
Ready == isAuthenticated /\ pending = <<>> /\ ~crashed

\* the render after a handler that set the states T
Rerender(T) ==
    /\ pending' = Schedule(T)
    /\ snap' = Live'
    /\ touched' = {}

\* the end of one effect that set the states T
Commit(T) ==
    LET t == touched \cup T IN
    IF Len(pending) <= 1
    THEN /\ pending' = Schedule(t)
         /\ snap' = Live'
         /\ touched' = {}
    ELSE /\ pending' = Tail(pending)
         /\ snap' = snap
         /\ touched' = t

Running(e) == isAuthenticated /\ ~crashed /\ pending # <<>> /\ Head(pending) = e

TransferVars == <<transferRecords, form, editing, isFormOpen, formError>>
MigVars      == <<migRuns, migFirst>>
LockVars     == <<loginLocked, loginMeta, rejected>>
AuthVars     == <<isAuthenticated, authPc, LockVars>>
BusinessVars == <<activeBusinessChat, messagesOf, sending, inflight>>
KeywordVars  == <<keywords, reading>>
ConfigVars   == <<configMigrating, apiConfig, configLoading, serverConfig>>
ViewVars     == <<activeChat, processedRef>>
SessionVars  == <<AuthVars, KeywordVars, ConfigVars, BusinessVars, chatMembers, sendTimer,
                  ViewVars>>
\* arg: the list the operation was called with, when it is setKeywords
NoBefore     == [accounts |-> <<>>, lsAccounts |-> Absent,
                 transfers |-> <<>>, lsTransfers |-> Absent, arg |-> <<>>]
Remember     == [accounts |-> accounts, lsAccounts |-> ls.accounts,
                 transfers |-> transferRecords, lsTransfers |-> ls.transfers,
                 arg |-> <<>>]
\* history of an operation no property looks back from
Note(op)     == lastOp' = op /\ before' = NoBefore
\* history of an operation whose effect is compared with the state before it
NoteFrom(op) == lastOp' = op /\ before' = Remember

(* ------------------------------ boot effect ---------------------------- *)
\* loadMockData: seeds the first manager when there is none, and the chats
loadMockData(prevManagers, store, t) ==
    LET created == prevManagers = <<>>
        list == IF created THEN << [id |-> t] >> ELSE prevManagers
        mockChats == createMockChats(list[1].id)
    IN  [managers |-> list, chats |-> mockChats,
         store |-> [store EXCEPT !.managers = IF created THEN Json(list) ELSE @,
                                 !.chats = Json(mockChats)]]

\* the stored api config of earlier versions: removed when unparseable or
\* without a token and key, else handed to migrateConfigToServer
ConfigAtLoad(store) ==
    IF store.config.k = "json" /\ store.config.v = "valid"
    THEN [store |-> store, migrate |-> TRUE]
    ELSE [store |-> [store EXCEPT !.config = Absent], migrate |-> FALSE]

\* the mount effect of AppProvider
InitialLoadEffect ==
    /\ Running("initialLoad")
    /\ activeManager' = activeManager
    /\ IF ~ls.loggedIn
       THEN \* mounted without authentication: nothing is loaded
            /\ UNCHANGED <<now, ls, managers, chats, accounts, transferRecords,
                           crashed, migRuns, migFirst, KeywordVars, ConfigVars>>
            /\ Commit({})
       ELSE
       \E t \in IF ls.managers.k = "json" /\ ls.managers.v # <<>> THEN StillClock ELSE Clock :
       now' = t /\
       LET conf == ConfigAtLoad(ls)
           ls1 == conf.store
           accs == IF ls.accounts.k = "json" THEN ls.accounts.v ELSE accounts
           mgrs0 == IF ls.managers.k = "json" THEN ls.managers.v ELSE managers
           version == IF ls.version = 0 THEN 1 ELSE ls.version
           mig == migrateToManagers(ls1, t)
           mock == loadMockData(mgrs0, ls1, t)
           T0 == (IF ls.accounts.k = "json" THEN {"accounts"} ELSE {})
                 \cup (IF ls.managers.k = "json" THEN {"managers"} ELSE {})
       IN  /\ configMigrating' = IF conf.migrate THEN "check" ELSE configMigrating
           /\ configLoading' = TRUE
           /\ UNCHANGED <<apiConfig, serverConfig>>
           /\ IF ls.transfers.k = "corrupt"
              THEN \* JSON.parse(savedTransfers) is not guarded: the effect throws
                   /\ crashed' = TRUE
                   /\ pending' = <<>>
                   /\ ls' = ls1
                   /\ UNCHANGED <<managers, chats, accounts, transferRecords,
                                  snap, touched, migRuns, migFirst, KeywordVars>>
              ELSE /\ accounts' = accs
                   /\ transferRecords' = IF ls.transfers.k = "json" THEN ls.transfers.v
                                         ELSE transferRecords
                   /\ keywords' = IF ls.keywords.k = "json" THEN ls.keywords.v ELSE keywords
                   /\ UNCHANGED reading
                   /\ IF version < 3
                      THEN /\ ls' = mig.store
                           /\ managers' = IF mig.setManagers THEN mig.managers ELSE mgrs0
                           /\ chats' = IF mig.setChats THEN mig.chats ELSE chats
                           /\ crashed' = mig.threw
                           /\ migRuns' = migRuns + 1
                           /\ migFirst' = IF migRuns = 0 THEN mig.store ELSE migFirst
                           /\ IF mig.threw
                              THEN pending' = <<>> /\ UNCHANGED <<snap, touched>>
                              ELSE Commit(T0 \cup {"managers", "chats"})
                      ELSE /\ IF ls.chats.k = "absent"
                              THEN /\ ls' = mock.store
                                   /\ managers' = mock.managers
                                   /\ chats' = mock.chats
                                   /\ Commit(T0 \cup {"chats"}
                                             \cup (IF mgrs0 = <<>> THEN {"managers"} ELSE {}))
                              ELSE /\ ls' = ls1
                                   /\ managers' = mgrs0
                                   /\ chats' = IF ls.chats.k = "json" THEN ls.chats.v ELSE chats
                                   /\ Commit(T0 \cup (IF ls.chats.k = "json" THEN {"chats"} ELSE {}))
                           /\ UNCHANGED <<crashed, migRuns, migFirst>>
    /\ Note("other")
    /\ UNCHANGED <<form, editing, isFormOpen, formError, upserts, repairSeen,
                   AuthVars, BusinessVars, chatMembers, sendTimer, ViewVars>>

(* ------------------------------- effects ------------------------------- *)
\* useEffect: set the initial active manager
ActiveManagerEffect ==
    /\ Running("activeManagerInit")
    /\ IF snap.activeManager = NoId /\ snap.managers # <<>>
       THEN /\ activeManager' = snap.managers[1].id
            /\ UNCHANGED <<managers, chats, accounts>>
            /\ Commit({"activeManager"})
       ELSE /\ UNCHANGED <<activeManager, managers, chats, accounts>>
            /\ Commit({})
    /\ Note("other")
    /\ UNCHANGED <<now, ls, crashed, upserts, repairSeen>>
    /\ UNCHANGED <<TransferVars, MigVars, SessionVars>>

\* useEffect: assign manager_id to legacy accounts lacking it
LegacyAccountsEffect ==
    /\ Running("legacyAccounts")
    /\ IF /\ snap.managers # <<>>
          /\ snap.accounts # <<>>
          /\ \E i \in DOMAIN snap.accounts : snap.accounts[i].manager_id = NoId
       THEN LET primaryId == snap.managers[1].id
                owner == IF snap.activeManager # NoId THEN snap.activeManager ELSE primaryId
                updated == Map(accounts, LAMBDA a :
                               IF a.manager_id = NoId THEN [a EXCEPT !.manager_id = owner] ELSE a)
            IN  /\ accounts' = updated
                /\ ls' = [ls EXCEPT !.accounts = Json(updated)]
                /\ UNCHANGED <<managers, chats, activeManager>>
                /\ Commit({"accounts"})
       ELSE /\ UNCHANGED <<accounts, ls, managers, chats, activeManager>>
            /\ Commit({})
    /\ Note("other")
    /\ UNCHANGED <<now, crashed, upserts, repairSeen>>
    /\ UNCHANGED <<TransferVars, MigVars, SessionVars>>

\* useEffect: seed a second manager with its own chats if only one exists
SeedSecondManagerEffect ==
    /\ Running("seedSecondManager")
    /\ IF /\ Len(snap.managers) = 1
          /\ snap.chats # <<>>
          /\ \A i \in DOMAIN snap.chats : snap.chats[i].manager_id = snap.managers[1].id
          /\ ls.seeded = 0
       THEN \E t \in Clock :
            LET second == [id |-> t]
                list == Append(managers, second)
                maxId == Max({0} \cup Ids(snap.chats))
                newChats == << [id |-> maxId + 1, type |-> "private", username |-> "alina_k",
                                manager_id |-> second.id, account_id |-> NoId,
                                last_message |-> [id |-> (maxId + 1) * 10 + 1, from_me |-> FALSE]],
                               [id |-> maxId + 2, type |-> "private", username |-> "dpetrov",
                                manager_id |-> second.id, account_id |-> NoId,
                                last_message |-> [id |-> (maxId + 2) * 10 + 1, from_me |-> FALSE]] >>
                clist == chats \o newChats
            IN  /\ now' = t
                /\ managers' = list
                /\ chats' = clist
                /\ ls' = [ls EXCEPT !.managers = Json(list), !.chats = Json(clist), !.seeded = 1]
                /\ UNCHANGED <<accounts, activeManager>>
                /\ Commit({"managers", "chats"})
       ELSE /\ UNCHANGED <<now, managers, chats, ls, accounts, activeManager>>
            /\ Commit({})
    /\ Note("other")
    /\ UNCHANGED <<crashed, upserts, repairSeen>>
    /\ UNCHANGED <<TransferVars, MigVars, SessionVars>>

\* the state updater of the repair effect: the chats it returns and whether
\* it wrote them to localStorage
RepairChatsUnchecked(prev, mgrs) ==
    LET managerIds == Ids(mgrs)
        Bad(c) == c.manager_id = NoId \/ c.manager_id \notin managerIds
        normalized == Map(prev, LAMBDA c :
            IF Bad(c)
            THEN [c EXCEPT !.manager_id = IF c.account_id # NoId
                                          THEN c.account_id ELSE mgrs[1].id]
            ELSE c)
        changed == \E i \in DOMAIN prev : Bad(prev[i])
    IN  IF prev = <<>>
        THEN [chats |-> createMockChats(mgrs[1].id), wrote |-> TRUE]
        ELSE IF changed THEN [chats |-> normalized, wrote |-> TRUE]
        ELSE [chats |-> prev, wrote |-> FALSE]

RepairChatsAlwaysWrite(prev, mgrs) ==
    LET managerIds == Ids(mgrs)
        Bad(c) == c.manager_id = NoId \/ c.manager_id \notin managerIds
        normalized == Map(prev, LAMBDA c :
            IF Bad(c)
            THEN [c EXCEPT !.manager_id = IF c.account_id # NoId /\ c.account_id \in managerIds
                                          THEN c.account_id ELSE mgrs[1].id]
            ELSE c)
    IN  IF prev = <<>>
        THEN [chats |-> createMockChats(mgrs[1].id), wrote |-> TRUE]
        ELSE [chats |-> normalized, wrote |-> TRUE]

RepairChats(prev, mgrs) ==
    LET managerIds == Ids(mgrs)
        Bad(c) == c.manager_id = NoId \/ c.manager_id \notin managerIds
        normalized == Map(prev, LAMBDA c :
            IF Bad(c)
            THEN [c EXCEPT !.manager_id = IF c.account_id # NoId /\ c.account_id \in managerIds
                                          THEN c.account_id ELSE mgrs[1].id]
            ELSE c)
        changed == \E i \in DOMAIN prev : Bad(prev[i])
    IN  IF prev = <<>>
        THEN [chats |-> createMockChats(mgrs[1].id), wrote |-> TRUE]
        ELSE IF changed THEN [chats |-> normalized, wrote |-> TRUE]
        ELSE [chats |-> prev, wrote |-> FALSE]

\* useEffect: repair / normalize chats so manager_id maps to an existing manager
RepairEffect ==
    /\ Running("repair")
    /\ IF snap.managers = <<>>
       THEN /\ UNCHANGED <<chats, ls, repairSeen>>
            /\ lastOp' = "repairSkipped"
            /\ UNCHANGED <<managers, accounts, activeManager>>
            /\ Commit({})
       ELSE LET r == RepairChats(chats, snap.managers) IN
            /\ chats' = r.chats
            /\ ls' = IF r.wrote THEN [ls EXCEPT !.chats = Json(r.chats)] ELSE ls
            /\ repairSeen' = snap.managers
            /\ lastOp' = IF r.wrote THEN "repairWrote" ELSE "repairKept"
            /\ UNCHANGED <<managers, accounts, activeManager>>
            /\ Commit(IF r.wrote THEN {"chats"} ELSE {})
    /\ before' = NoBefore
    /\ UNCHANGED <<now, crashed, upserts>>
    /\ UNCHANGED <<TransferVars, MigVars, SessionVars>>

(* --------------------------- manager handlers -------------------------- *)
\* five mock members for each group chat of the render the effect closed over
SeedMembers(cs) ==
    LET RECURSIVE Seed(_)
        Seed(i) ==
            IF i > Len(cs) THEN <<>>
            ELSE (IF cs[i].type \in {"group", "supergroup"}
                  THEN [k \in 1..5 |->
                           [chat_id |-> cs[i].id, user_id |-> cs[i].id * 10 + k,
                            role |-> IF k = 1 THEN "creator"
                                     ELSE IF k <= 3 THEN "admin" ELSE "member"]]
                  ELSE <<>>) \o Seed(i + 1)
    IN  Seed(1)

\* useEffect(..., []): load the chat members, or seed them for the group chats
ChatMembersEffect ==
    /\ Running("chatMembersLoad")
    /\ LET seeded == SeedMembers(snap.chats) IN
       CASE ls.members.k = "json" ->
               chatMembers' = ls.members.v /\ ls' = ls
         [] ls.members.k = "absent" /\ seeded # <<>> ->
               chatMembers' = seeded /\ ls' = [ls EXCEPT !.members = Json(seeded)]
         [] OTHER ->
               UNCHANGED <<chatMembers, ls>>
    /\ UNCHANGED <<now, managers, activeManager, chats, accounts, crashed, upserts,
                   repairSeen, AuthVars, KeywordVars, ConfigVars, BusinessVars,
                   sendTimer, ViewVars>>
    /\ UNCHANGED <<TransferVars, MigVars>>
    /\ Commit({})
    /\ Note("other")

\* ChatWindow renders ChatMessages only while a chat is active: with
\* activeChat null the instance and its processedRef are gone, and the next
\* instance starts with an empty set
closeChat ==
    /\ activeChat' = NoChat
    /\ processedRef' = {}

ManagerFrame ==
    /\ UNCHANGED <<crashed, upserts, repairSeen>>
    /\ UNCHANGED <<TransferVars, MigVars, AuthVars, KeywordVars, ConfigVars, BusinessVars,
                   chatMembers, sendTimer>>
ManagerOpFrame ==
    /\ ManagerFrame
    /\ UNCHANGED ViewVars

addManager ==
    /\ Ready
    /\ \E t \in Clock :
       LET m == [id |-> t]
           list == Append(managers, m)
       IN  /\ now' = t
           /\ managers' = list
           /\ ls' = [ls EXCEPT !.managers = Json(list)]
    /\ UNCHANGED <<chats, accounts, activeManager>>
    /\ Rerender({"managers"})
    /\ Note("other")
    /\ ManagerOpFrame

\* the updates of updateManager touch the name only: a new array, same ids
updateManager(id) ==
    /\ Ready
    /\ managers' = managers
    /\ now' = now
    /\ ls' = [ls EXCEPT !.managers = Json(managers)]
    /\ UNCHANGED <<chats, accounts, activeManager>>
    /\ Rerender({"managers"})
    /\ Note("other")
    /\ ManagerOpFrame

deleteManager(id) ==
    /\ Ready
    /\ LET list == Filter(managers, LAMBDA m : m.id # id)
           clist == Filter(chats, LAMBDA c : c.manager_id # id)
       IN  /\ managers' = list
           /\ chats' = clist
           /\ ls' = [ls EXCEPT !.managers = Json(list), !.chats = Json(clist)]
    /\ activeManager' = IF activeManager = id THEN NoId ELSE activeManager
    /\ UNCHANGED <<accounts, now>>
    /\ Rerender({"managers", "chats"} \cup (IF activeManager = id /\ id # NoId
                                            THEN {"activeManager"} ELSE {}))
    /\ IF activeManager = id THEN closeChat ELSE UNCHANGED ViewVars
    /\ Note("deleteManager")
    /\ ManagerFrame

\* the setActiveManager of the context value (m = NoId for null)
setActiveManager(m) ==
    /\ Ready
    /\ activeManager' = m
    /\ UNCHANGED <<managers, chats, accounts, ls, now>>
    /\ Rerender(IF m # activeManager THEN {"activeManager"} ELSE {})
    /\ IF m = NoId \/ (activeChat # NoChat /\ activeChat.manager_id # m)
       THEN closeChat ELSE UNCHANGED ViewVars
    /\ Note("other")
    /\ ManagerFrame

addChat(managerId, chat) ==
    /\ Ready
    /\ \E t \in Clock :
       LET newChat == [id |-> t, type |-> chat.type, username |-> chat.username,
                       manager_id |-> managerId, account_id |-> NoId,
                       last_message |-> NoMessage]
           list == Append(chats, newChat)
       IN  /\ now' = t
           /\ chats' = list
           /\ ls' = [ls EXCEPT !.chats = Json(list)]
    /\ UNCHANGED <<managers, accounts, activeManager>>
    /\ Rerender({"chats"})
    /\ Note("other")
    /\ ManagerOpFrame

(* --------------------------- account handlers -------------------------- *)
NoRun == [sender |-> NoId, patches |-> {}, calls |-> 0]
AccountOpFrame ==
    /\ UNCHANGED <<managers, chats, activeManager, crashed, repairSeen>>
    /\ UNCHANGED <<TransferVars, MigVars, SessionVars>>

\* activeManager?.id || managers[0]?.id
DefaultOwner == IF activeManager # NoId THEN activeManager
                ELSE IF managers # <<>> THEN managers[1].id ELSE NoId

\* the record createAccountFromChat builds for a sender without a contact
newAccountFromChatMidRating(chat, senderId, t) ==
    [id |-> t, user_id |-> senderId,
     username |-> IF Truthy(chat.username) THEN chat.username ELSE Undefined,
     username_history |-> <<>>,
     rating |-> 3,
     category |-> IF chat.type = "private" THEN "lead" ELSE "other",
     source |-> IF chat.type = "private" THEN "private" ELSE "group",
     last_contact |-> t,
     total_messages |-> 1,
     manager_id |-> DefaultOwner]

newAccountFromChat(chat, senderId, t) ==
    [id |-> t, user_id |-> senderId,
     username |-> IF Truthy(chat.username) THEN chat.username ELSE Undefined,
     username_history |-> <<>>,
     rating |-> 1,
     category |-> IF chat.type = "private" THEN "lead" ELSE "other",
     source |-> IF chat.type = "private" THEN "private" ELSE "group",
     last_contact |-> t,
     total_messages |-> 1,
     manager_id |-> DefaultOwner]

\* the state updater of createAccountFromChat and what it stores
createAccountFromChatUpdater(chat, senderId) ==
    /\ \E t \in Clock :
       LET found == {i \in DOMAIN accounts : accounts[i].user_id = senderId}
           existing == accounts[CHOOSE i \in found : \A j \in found : i <= j]
           updated == Map(accounts, LAMBDA acc :
                          IF acc.id = existing.id
                          THEN [acc EXCEPT !.last_contact = t,
                                           !.total_messages = acc.total_messages + 1]
                          ELSE acc)
           newAccount == newAccountFromChat(chat, senderId, t)
           result == IF found # {} THEN updated ELSE Append(accounts, newAccount)
           patch == <<senderId, chat.id, t>>
       IN  /\ now' = t
           /\ accounts' = result
           /\ ls' = [ls EXCEPT !.accounts = Json(result)]
           /\ lastOp' = IF upserts.sender = senderId /\ patch \in upserts.patches
                        THEN "createAccountFromChatAgain" ELSE "createAccountFromChat"
           /\ upserts' = IF upserts.sender = senderId
                         THEN [upserts EXCEPT !.patches = @ \cup {patch}, !.calls = @ + 1]
                         ELSE IF found = {}
                         THEN [sender |-> senderId, patches |-> {patch}, calls |-> 1]
                         ELSE NoRun
    /\ before' = Remember

createAccountFromChat(chat, senderId) ==
    /\ Ready
    /\ createAccountFromChatUpdater(chat, senderId)
    /\ AccountOpFrame
    /\ Rerender({"accounts"})

\* account: Omit<Account, 'id'>
addAccount(account) ==
    /\ Ready
    /\ \E t \in Clock :
       LET newAccount == [id |-> t, user_id |-> account.user_id,
                          username |-> account.username,
                          username_history |-> account.username_history,
                          rating |-> account.rating,
                          category |-> account.category,
                          source |-> account.source,
                          last_contact |-> account.last_contact,
                          total_messages |-> account.total_messages,
                          manager_id |-> Nullish(account.manager_id, DefaultOwner)]
           newAccounts == Append(accounts, newAccount)
       IN  /\ now' = t
           /\ accounts' = newAccounts
           /\ ls' = [ls EXCEPT !.accounts = Json(newAccounts)]
    /\ upserts' = NoRun
    /\ AccountOpFrame
    /\ Rerender({"accounts"})
    /\ Note("other")

HistoryLimit == 20
Placeholder  == "(empty)"

\* the username_history updateAccount computes for one account
usernameHistoryUncapped(account, updates, t) ==
    IF Truthy(updates.username) /\ updates.username # account.username
    THEN << [username |-> IF Truthy(account.username) THEN account.username ELSE Placeholder,
             changed_at |-> t] >> \o account.username_history
    ELSE account.username_history

usernameHistory(account, updates, t) ==
    IF Truthy(updates.username) /\ updates.username # account.username
    THEN SubSeq(<< [username |-> IF Truthy(account.username) THEN account.username ELSE Placeholder,
                    changed_at |-> t] >> \o account.username_history,
                1, Min2(HistoryLimit, Len(account.username_history) + 1))
    ELSE account.username_history

\* { ...account, ...updates, username_history } for the fields the model keeps
Merged(account, updates, t) ==
    [account EXCEPT
        !.user_id = IF updates.user_id = AbsentN THEN @ ELSE updates.user_id,
        !.username = IF updates.username = AbsentS THEN @ ELSE updates.username,
        !.rating = IF updates.rating = AbsentN THEN @ ELSE updates.rating,
        !.manager_id = IF updates.manager_id = AbsentN THEN @ ELSE updates.manager_id,
        !.username_history = usernameHistory(account, updates, t)]

updateAccount(id, updates) ==
    /\ Ready
    /\ \E t \in IF Truthy(updates.username) THEN Clock ELSE StillClock :
       LET newAccounts == Map(accounts, LAMBDA account :
                              IF account.id # id THEN account
                              ELSE Merged(account, updates, t))
       IN  /\ now' = t
           /\ accounts' = newAccounts
           /\ ls' = [ls EXCEPT !.accounts = Json(newAccounts)]
    /\ upserts' = NoRun
    /\ AccountOpFrame
    /\ Rerender({"accounts"})
    /\ NoteFrom("updateAccount")

deleteAccount(id) ==
    /\ Ready
    /\ LET newAccounts == Filter(accounts, LAMBDA account : account.id # id)
       IN  /\ accounts' = newAccounts
           /\ now' = now
           /\ ls' = [ls EXCEPT !.accounts = Json(newAccounts)]
    /\ upserts' = NoRun
    /\ AccountOpFrame
    /\ Rerender({"accounts"})
    /\ Note("other")


\* AccountModal.handleSubmit as the chat window wires it, for the open chat:
\* existingAccount = accounts.find(a => a.user_id === activeChat.id) is the
\* record being edited; the form is left as the modal initialised it but for
\* the stars; no business account is selected
AccountModalHandleSubmit(chat, stars) ==
    LET found == {i \in DOMAIN accounts : accounts[i].user_id = chat.id}
        editingAccount == accounts[CHOOSE i \in found : \A j \in found : i <= j]
    IN  IF found # {}
        THEN updateAccount(editingAccount.id,
                 [user_id |-> editingAccount.user_id,
                  username |-> IF Truthy(editingAccount.username)
                               THEN editingAccount.username ELSE Undefined,
                  rating |-> stars,
                  manager_id |-> editingAccount.manager_id])
        ELSE \E u \in Clock :
                /\ addAccount(
                     [user_id |-> u,
                      username |-> IF Truthy(chat.username) THEN chat.username ELSE Undefined,
                      username_history |-> <<>>,
                      rating |-> stars,
                      category |-> IF chat.type = "private" THEN "lead" ELSE "other",
                      source |-> IF chat.type = "private" THEN "private" ELSE "group",
                      last_contact |-> u,
                      total_messages |-> 0,
                      manager_id |-> NoId])
                /\ now' >= u

(* ------------------------- transfer records ---------------------------- *)
EmptyForm == [supplier_account_id |-> EmptySel, client_account_id |-> EmptySel,
              status |-> "new"]
TransferFrame ==
    /\ UNCHANGED <<managers, chats, accounts, activeManager, pending, snap,
                   touched, crashed, upserts, repairSeen>>
    /\ UNCHANGED <<MigVars, SessionVars>>

addTransferRecord(data) ==
    \E t \in Clock :
    LET newRecord == [id |-> t, supplier_account_id |-> data.supplier_account_id,
                      client_account_id |-> data.client_account_id,
                      status |-> data.status, created_at |-> t]
        updated == << newRecord >> \o transferRecords
    IN  /\ now' = t
        /\ transferRecords' = updated
        /\ ls' = [ls EXCEPT !.transfers = Json(updated)]

\* updates: supplier, client (AbsentN when not given) and status
updateTransferRecord(id, updates) ==
    LET updated == Map(transferRecords, LAMBDA r :
            IF r.id = id
            THEN [r EXCEPT
                    !.supplier_account_id = IF updates.supplier_account_id = AbsentN
                                            THEN @ ELSE updates.supplier_account_id,
                    !.client_account_id = IF updates.client_account_id = AbsentN
                                          THEN @ ELSE updates.client_account_id,
                    !.status = updates.status]
            ELSE r)
    IN  /\ now' = now
        /\ transferRecords' = updated
        /\ ls' = [ls EXCEPT !.transfers = Json(updated)]

deleteTransferRecord(id) ==
    /\ Ready
    /\ LET updated == Filter(transferRecords, LAMBDA r : r.id # id)
       IN  /\ transferRecords' = updated
           /\ ls' = [ls EXCEPT !.transfers = Json(updated)]
    /\ UNCHANGED <<now, form, editing, isFormOpen, formError>>
    /\ Note("other")
    /\ TransferFrame

resetForm ==
    /\ form' = EmptyForm
    /\ editing' = NoId
    /\ isFormOpen' = FALSE
    /\ formError' = FALSE

\* the "new" button: setIsFormOpen(true); setEditing(null)
openForm ==
    /\ Ready
    /\ isFormOpen' = TRUE
    /\ editing' = NoId
    /\ UNCHANGED <<now, form, formError, transferRecords, ls>>
    /\ Note("other")
    /\ TransferFrame

startEdit(record) ==
    /\ Ready
    /\ editing' = record.id
    /\ form' = [supplier_account_id |-> record.supplier_account_id,
                client_account_id |-> record.client_account_id,
                status |-> record.status]
    /\ isFormOpen' = TRUE
    /\ UNCHANGED <<now, formError, transferRecords, ls>>
    /\ Note("other")
    /\ TransferFrame

\* onChange of the supplier select
setFormSupplier(value) ==
    /\ Ready
    /\ isFormOpen
    /\ form' = [form EXCEPT !.supplier_account_id = value]
    /\ formError' = FALSE
    /\ UNCHANGED <<now, editing, isFormOpen, transferRecords, ls>>
    /\ Note("other")
    /\ TransferFrame

\* onChange of the client select
setFormClient(value) ==
    /\ Ready
    /\ isFormOpen
    /\ form' = [form EXCEPT !.client_account_id = value]
    /\ formError' = FALSE
    /\ UNCHANGED <<now, editing, isFormOpen, transferRecords, ls>>
    /\ Note("other")
    /\ TransferFrame

handleSubmitUnguarded ==
    /\ Ready
    /\ isFormOpen
    /\ IF form.supplier_account_id = EmptySel \/ form.client_account_id = EmptySel
       THEN /\ formError' = TRUE
            /\ lastOp' = "rejectedEmpty"
            /\ UNCHANGED <<now, form, editing, isFormOpen, transferRecords, ls>>
       ELSE /\ IF editing # NoId
               THEN updateTransferRecord(editing, form)
               ELSE addTransferRecord(form)
            /\ resetForm
            /\ lastOp' = "submitted"
    /\ before' = Remember
    /\ TransferFrame

\* TransfersManager.handleSubmit
handleSubmit ==
    /\ Ready
    /\ isFormOpen
    /\ IF form.supplier_account_id = EmptySel \/ form.client_account_id = EmptySel
       THEN /\ formError' = TRUE
            /\ lastOp' = "rejectedEmpty"
            /\ UNCHANGED <<now, form, editing, isFormOpen, transferRecords, ls>>
       ELSE IF form.supplier_account_id = form.client_account_id
       THEN /\ formError' = TRUE
            /\ lastOp' = "rejectedSame"
            /\ UNCHANGED <<now, form, editing, isFormOpen, transferRecords, ls>>
       ELSE /\ IF editing # NoId
               THEN updateTransferRecord(editing, form)
               ELSE addTransferRecord(form)
            /\ resetForm
            /\ lastOp' = "submitted"
    /\ before' = Remember
    /\ TransferFrame

cycleStatus(record) ==
    /\ Ready
    /\ LET order == << "new", "in_progress", "completed", "cancelled" >>
           idx == CHOOSE i \in 1..4 : order[i] = record.status
           next == order[(idx % 4) + 1]
       IN  updateTransferRecord(record.id,
               [supplier_account_id |-> AbsentN, client_account_id |-> AbsentN,
                status |-> next])
    /\ UNCHANGED <<form, editing, isFormOpen, formError>>
    /\ Note("other")
    /\ TransferFrame

\* the "reset" button of the edit form: status back to 'new'
resetStatus ==
    /\ Ready
    /\ isFormOpen
    /\ editing # NoId
    /\ updateTransferRecord(editing, [supplier_account_id |-> AbsentN,
                                      client_account_id |-> AbsentN, status |-> "new"])
    /\ UNCHANGED <<form, editing, isFormOpen, formError>>
    /\ Note("other")
    /\ TransferFrame

(* ------------------------------- keywords ------------------------------ *)
\* strings are sequences of characters, so that trim, toLowerCase and split
\* are computed
Whitespace == {" "}
Separators == {";", ",", "\n", "\r", "\t", "|", " "}
toLowerCase(str) == [i \in DOMAIN str |-> IF str[i] = "A" THEN "a" ELSE str[i]]

RECURSIVE trimStart(_)
trimStart(str) ==
    IF str # <<>> /\ Head(str) \in Whitespace THEN trimStart(Tail(str)) ELSE str
RECURSIVE trimEnd(_)
trimEnd(str) ==
    IF str # <<>> /\ str[Len(str)] \in Whitespace
    THEN trimEnd(SubSeq(str, 1, Len(str) - 1)) ELSE str
trim(str) == trimEnd(trimStart(str))

\* index of the first element of list equal to str ignoring case (0: none)
findIndexLower(list, str) ==
    LET same == {i \in DOMAIN list : toLowerCase(list[i]) = toLowerCase(str)}
    IN  IF same = {} THEN 0 ELSE CHOOSE i \in same : \A j \in same : i <= j

\* the elements of list at the indexes in keep, in order
RECURSIVE Pick(_, _)
Pick(list, keep) ==
    IF list = <<>> THEN <<>>
    ELSE Pick(SubSeq(list, 1, Len(list) - 1), keep)
         \o (IF Len(list) \in keep THEN << list[Len(list)] >> ELSE <<>>)

\* kw.map(k => k.trim()).filter(Boolean)
\*   .filter((v, i, a) => a.findIndex(x => x.toLowerCase() === v.toLowerCase()) === i)
cleanedCaseSensitive(kw) ==
    LET trimmed == [i \in DOMAIN kw |-> trim(kw[i])]
        nonEmpty == Pick(trimmed, {i \in DOMAIN trimmed : trimmed[i] # <<>>})
    IN  Pick(nonEmpty, {i \in DOMAIN nonEmpty :
                           \A j \in 1..(i - 1) : nonEmpty[j] # nonEmpty[i]})

cleaned(kw) ==
    LET trimmed == [i \in DOMAIN kw |-> trim(kw[i])]
        nonEmpty == Pick(trimmed, {i \in DOMAIN trimmed : trimmed[i] # <<>>})
    IN  Pick(nonEmpty, {i \in DOMAIN nonEmpty : findIndexLower(nonEmpty, nonEmpty[i]) = i})

KeywordFrame ==
    /\ UNCHANGED <<now, managers, activeManager, chats, accounts, crashed, upserts,
                   repairSeen, AuthVars, ConfigVars, BusinessVars, chatMembers, sendTimer,
                   ViewVars>>
    /\ UNCHANGED <<TransferVars, MigVars>>

\* the context's setKeywords
setKeywords(kw) ==
    /\ keywords' = cleaned(kw)
    /\ ls' = [ls EXCEPT !.keywords = Json(cleaned(kw))]
    /\ lastOp' = "setKeywords"
    /\ before' = [Remember EXCEPT !.arg = kw]
    /\ KeywordFrame
    /\ Rerender({"keywords"})

\* Settings.addKeyword with newKeyword typed into the input
addKeyword(newKeyword) ==
    /\ Ready
    /\ LET val == trim(newKeyword) IN
       IF val = <<>> \/ \E i \in DOMAIN keywords : toLowerCase(keywords[i]) = toLowerCase(val)
       THEN UNCHANGED vars
       ELSE setKeywords(keywords \o << val >>) /\ UNCHANGED reading

removeKeyword(k) ==
    /\ Ready
    /\ setKeywords(Pick(keywords, {i \in DOMAIN keywords : keywords[i] # k}))
    /\ UNCHANGED reading

\* text.split(/[;,\n\r\t| ]+/): the pieces between the runs of separators,
\* empty pieces at the ends included
RECURSIVE split(_, _)
split(text, piece) ==
    IF text = <<>> THEN << piece >>
    ELSE IF Head(text) \in Separators
    THEN IF Len(text) > 1 /\ text[2] \in Separators
         THEN split(Tail(text), piece)
         ELSE << piece >> \o split(Tail(text), <<>>)
    ELSE split(Tail(text), Append(piece, Head(text)))

\* the loop of onload: the tokens neither in existing nor added already
RECURSIVE toAdd(_, _, _)
toAdd(tokens, existing, added) ==
    IF tokens = <<>> THEN added
    ELSE IF findIndexLower(existing, Head(tokens)) # 0
            \/ findIndexLower(added, Head(tokens)) # 0
    THEN toAdd(Tail(tokens), existing, added)
    ELSE toAdd(Tail(tokens), existing, Append(added, trim(Head(tokens))))

\* BulkKeywordImport.onFile: the reader starts; its onload keeps the keywords
\* of this render
onFile ==
    /\ Ready
    /\ ~reading.busy
    /\ reading' = [busy |-> TRUE, keywords |-> keywords]
    /\ UNCHANGED <<ls, keywords, lastOp, before, pending, snap, touched>>
    /\ KeywordFrame

\* reader.onload with the text of the file
onload(text) ==
    /\ Ready
    /\ reading.busy
    /\ reading' = NoRead
    /\ LET pieces == split(text, <<>>)
           trimmed == [i \in DOMAIN pieces |-> trim(pieces[i])]
           tokens == Pick(trimmed, {i \in DOMAIN trimmed : trimmed[i] # <<>>})
           new == toAdd(tokens, reading.keywords, <<>>)
       IN  IF tokens = <<>> \/ new = <<>>
           THEN /\ UNCHANGED <<ls, keywords, lastOp, before, pending, snap, touched>>
                /\ KeywordFrame
           ELSE setKeywords(reading.keywords \o new)

(* --------------------------- business messages ------------------------ *)
BusinessFrame ==
    /\ UNCHANGED <<now, ls, managers, activeManager, chats, accounts, pending, snap,
                   touched, crashed, upserts, repairSeen, AuthVars, KeywordVars,
                   ConfigVars, chatMembers, sendTimer, ViewVars>>
    /\ UNCHANGED <<TransferVars, MigVars>>

\* setActiveBusinessChat, and the effect of BusinessChatWindow that loads the
\* messages of the chat selected: loadBusinessMessages up to its request
setActiveBusinessChat(c) ==
    /\ Ready
    /\ c # activeBusinessChat
    /\ activeBusinessChat' = c
    /\ inflight' = IF c # NoId THEN inflight \cup {c} ELSE inflight
    /\ UNCHANGED <<messagesOf, sending>>
    /\ Note("other")
    /\ BusinessFrame

\* loadBusinessMessages(c, 50, 0) and the reload of sendBusinessMessage, from
\* the response on
loadBusinessMessagesDone(c, ok) ==
    /\ Ready
    /\ c \in inflight
    /\ inflight' = inflight \ {c}
    /\ messagesOf' = IF ok THEN c ELSE messagesOf
    /\ UNCHANGED <<activeBusinessChat, sending>>
    /\ Note(IF ok THEN "messagesLoaded" ELSE "other")
    /\ BusinessFrame

\* sendBusinessMessage up to its request; the callback closes over the chat
\* that is active when it is called
sendBusinessMessage ==
    /\ Ready
    /\ activeBusinessChat # NoId
    /\ sending' = sending \cup {activeBusinessChat}
    /\ UNCHANGED <<activeBusinessChat, messagesOf, inflight>>
    /\ Note("other")
    /\ BusinessFrame

\* sendBusinessMessage from the response to the send on: the reload request
\* for the chat of the closure
sendBusinessMessageSent(c, ok) ==
    /\ Ready
    /\ c \in sending
    /\ sending' = sending \ {c}
    /\ inflight' = IF ok THEN inflight \cup {c} ELSE inflight
    /\ UNCHANGED <<activeBusinessChat, messagesOf>>
    /\ Note("other")
    /\ BusinessFrame

(* ------------------------------ AuthProvider --------------------------- *)
MAX_ATTEMPTS == 5
LOCK_MINUTES == 5
LockMs == LOCK_MINUTES * 60 * 1000

clearAppDataKeepsChats(store) ==
    [store EXCEPT !.config = Absent, !.accounts = Absent,
                  !.managers = Absent, !.transfers = Absent, !.keywords = Absent,
                  !.version = 0, !.members = Absent, !.seeded = 0]

clearAppData(store) ==
    [store EXCEPT !.config = Absent, !.accounts = Absent, !.chats = Absent,
                  !.managers = Absent, !.transfers = Absent, !.keywords = Absent,
                  !.version = 0, !.members = Absent, !.seeded = 0]

\* the in-memory state of a freshly constructed AppProvider subtree, with the
\* effects p still to run
AppState(p) ==
    /\ managers' = <<>>
    /\ activeManager' = NoId
    /\ chats' = <<>>
    /\ accounts' = <<>>
    /\ transferRecords' = <<>>
    /\ form' = EmptyForm
    /\ editing' = NoId
    /\ isFormOpen' = FALSE
    /\ formError' = FALSE
    /\ keywords' = <<>>
    /\ reading' = NoRead
    /\ apiConfig' = "empty"
    /\ configLoading' = FALSE
    /\ activeBusinessChat' = NoId
    /\ messagesOf' = NoId
    /\ sending' = {}
    /\ inflight' = {}
    /\ chatMembers' = <<>>
    /\ UNCHANGED sendTimer
    /\ activeChat' = NoChat
    /\ processedRef' = {}
    /\ pending' = p
    /\ snap' = [managers |-> <<>>, chats |-> <<>>, accounts |-> <<>>, activeManager |-> NoId]
    /\ touched' = {}
    /\ crashed' = FALSE
\* App renders AppProvider only when isAuthenticated
MountApp == AppState(MountEffects)
UnmountApp == AppState(<<>>)
KeepApp == UNCHANGED <<managers, activeManager, chats, accounts, transferRecords,
                       form, editing, isFormOpen, formError, KeywordVars, apiConfig, configLoading,
                       activeBusinessChat, messagesOf, sending, inflight,
                       chatMembers, sendTimer, ViewVars, pending, snap, touched, crashed>>
AuthGhosts == UNCHANGED <<upserts, repairSeen, migRuns, migFirst, configMigrating, serverConfig>>
AuthFrame ==
    /\ AuthGhosts
    /\ UNCHANGED LockVars
\* the history of a page session ends with it
EndFrame ==
    /\ upserts' = NoRun
    /\ repairSeen' = <<>>
    /\ migRuns' = 0
    /\ migFirst' = ls'
    /\ UNCHANGED <<configMigrating, serverConfig>>

\* checkAuth up to its request
checkAuth ==
    /\ authPc = "mount"
    /\ authPc' = IF ls.loggedIn THEN "me" ELSE "idle"
    /\ isAuthenticated' = FALSE
    /\ UNCHANGED <<now, ls>>
    /\ KeepApp
    /\ AuthFrame
    /\ Note("other")

\* checkAuth from the answer of /auth/me on: ok, a refusal, or a network error
checkAuthDone(outcome) ==
    /\ authPc = "me"
    /\ authPc' = "idle"
    /\ IF outcome = "ok"
       THEN /\ isAuthenticated' = TRUE
            /\ ls' = [ls EXCEPT !.loggedIn = TRUE]
            /\ MountApp
            /\ Note("other")
       ELSE /\ isAuthenticated' = FALSE
            /\ ls' = clearAppData([ls EXCEPT !.loggedIn = FALSE])
            /\ KeepApp
            /\ Note(IF outcome = "refused" THEN "checkAuthRefused" ELSE "checkAuthError")
    /\ UNCHANGED now
    /\ AuthFrame

\* login up to its first request, with Date.now() read from T: while the
\* stored lock lasts it returns false at once
loginAt(T) ==
    /\ authPc = "idle"
    /\ ~isAuthenticated
    /\ \E t \in T :
          LET locked == ls.meta.lockedUntil # 0 /\ t < ls.meta.lockedUntil IN
          /\ now' = t
          /\ authPc' = IF locked THEN "idle" ELSE "csrf"
          /\ loginLocked' = IF locked THEN TRUE ELSE loginLocked
          /\ loginMeta' = IF locked THEN 0 ELSE ls.meta.attempts
          /\ rejected' = IF ls.meta.lockedUntil # 0 /\ ~locked THEN 0 ELSE rejected
    /\ UNCHANGED <<ls, isAuthenticated>>
    /\ KeepApp
    /\ AuthGhosts
    /\ Note(IF authPc' = "idle" THEN "loginLocked" ELSE "other")

login == loginAt(Clock)

\* login from the answer to the csrf-token request on
csrfDone(ok) ==
    /\ authPc = "csrf"
    /\ authPc' = IF ok THEN "login" ELSE "idle"
    /\ loginMeta' = IF ok THEN loginMeta ELSE 0
    /\ UNCHANGED <<now, ls, isAuthenticated, loginLocked, rejected>>
    /\ KeepApp
    /\ AuthGhosts
    /\ Note(IF ok THEN "other" ELSE "loginFailed")

\* login from the answer to the login request on, with Date.now() read from
\* T; meta is the value login read when it started
loginDoneAt(outcome, T) ==
    /\ authPc = "login"
    /\ authPc' = "idle"
    /\ loginMeta' = 0
    /\ CASE outcome = "ok" ->
              /\ isAuthenticated' = TRUE
              /\ ls' = [ls EXCEPT !.loggedIn = TRUE, !.meta = NoMeta]
              /\ now' = now
              /\ rejected' = 0
              /\ UNCHANGED loginLocked
              /\ MountApp
              /\ Note("other")
         [] outcome = "rejected" ->
              /\ \E t \in T :
                    LET attempts == loginMeta + 1
                        meta == IF attempts >= MAX_ATTEMPTS
                                THEN [attempts |-> attempts, lockedUntil |-> t + LockMs]
                                ELSE [attempts |-> attempts, lockedUntil |-> 0]
                    IN  /\ now' = IF attempts >= MAX_ATTEMPTS THEN t ELSE now
                        /\ ls' = clearAppData([ls EXCEPT !.meta = meta, !.loggedIn = FALSE])
                        /\ loginLocked' = IF attempts >= MAX_ATTEMPTS THEN TRUE ELSE loginLocked
              /\ rejected' = rejected + 1
              /\ isAuthenticated' = FALSE
              /\ KeepApp
              /\ Note("loginRejected")
         [] OTHER ->
              /\ UNCHANGED <<now, ls, isAuthenticated, loginLocked, rejected>>
              /\ KeepApp
              /\ Note("loginFailed")
    /\ AuthGhosts

loginDone(outcome) == loginDoneAt(outcome, Clock)

\* logout up to its request; the application stays usable while it waits
logout ==
    /\ authPc = "idle"
    /\ isAuthenticated
    /\ ~crashed
    /\ authPc' = "logout"
    /\ UNCHANGED <<now, ls, isAuthenticated>>
    /\ KeepApp
    /\ AuthFrame
    /\ Note("other")

\* the finally block of logout, after the request succeeded or failed
logoutDone(ok) ==
    /\ authPc = "logout"
    /\ authPc' = "idle"
    /\ isAuthenticated' = FALSE
    /\ ls' = clearAppData([ls EXCEPT !.loggedIn = FALSE])
    /\ UnmountApp
    /\ UNCHANGED <<now, LockVars>>
    /\ EndFrame
    /\ NoteFrom(IF ok THEN "logout" ELSE "logoutFailed")

\* what migrateConfigToServer does with the answer to its first request, the
\* GET of the server's config: "complete" is an ok answer holding token and
\* key, "incomplete" an ok answer lacking one, "error" a failed request
migrateConfigToServer(check) ==
    /\ configMigrating = "check"
    /\ check = "complete" => serverConfig
    /\ check = "incomplete" => ~serverConfig
    /\ configMigrating' = IF check \in {"incomplete", "refused"} THEN "post" ELSE "idle"
    /\ ls' = IF check = "complete" THEN [ls EXCEPT !.config = Absent] ELSE ls
    /\ lastOp' = IF check = "complete" THEN "configAlreadyOnServer" ELSE "other"
    /\ before' = NoBefore
    /\ UNCHANGED <<now, AuthVars, upserts, repairSeen, migRuns, migFirst, serverConfig>>
    /\ KeepApp

\* the POST of the config answered: the fetch resolves for every status and
\* throws for a failed request only
migrateConfigToServerPosted(post) ==
    /\ configMigrating = "post"
    /\ configMigrating' = "idle"
    /\ serverConfig' = (serverConfig \/ post = "ok")
    /\ ls' = IF post = "error" THEN ls ELSE [ls EXCEPT !.config = Absent]
    /\ lastOp' = IF post = "error" THEN "other" ELSE "configMigrated"
    /\ before' = NoBefore
    /\ UNCHANGED <<now, AuthVars, upserts, repairSeen, migRuns, migFirst>>
    /\ KeepApp

\* the stored config as loadApiConfigFromServer's fallback reads it
FallbackConfig ==
    IF ls.config.k = "absent" THEN [threw |-> FALSE, apiConfig |-> apiConfig]
    ELSE IF ls.config.k = "json" THEN [threw |-> FALSE, apiConfig |-> "local"]
    ELSE [threw |-> TRUE, apiConfig |-> apiConfig]

\* loadApiConfigFromServer from the server's answer on: "ok", "unauthorized"
\* (401), "refused" (any other status) or "error" (the request failed)
loadApiConfigFromServerDone(answer) ==
    /\ configLoading
    /\ pending = <<>>
    /\ configLoading' = FALSE
    /\ apiConfig' = CASE answer = "ok" -> "server"
                      [] answer = "refused" -> apiConfig
                      [] OTHER -> FallbackConfig.apiConfig
    /\ lastOp' = CASE answer = "ok" -> "configLoaded"
                   [] answer = "refused" -> "configLoadFailed"
                   [] FallbackConfig.threw -> "configLoadRejected"
                   [] OTHER -> "configLoadFailed"
    /\ before' = NoBefore
    /\ UNCHANGED <<now, ls, AuthVars, upserts, repairSeen, configMigrating, serverConfig>>
    /\ UNCHANGED <<managers, activeManager, chats, accounts, pending, snap, touched,
                   crashed, KeywordVars, BusinessVars, chatMembers, sendTimer, ViewVars>>
    /\ UNCHANGED <<TransferVars, MigVars>>

\* loadBusinessAccounts answered 401: the login flag is removed and the page
\* reloads, which constructs AuthProvider anew
loadBusinessAccounts401 ==
    /\ Ready
    /\ authPc = "idle"
    /\ ls' = [ls EXCEPT !.loggedIn = FALSE]
    /\ isAuthenticated' = FALSE
    /\ authPc' = "mount"
    /\ UnmountApp
    /\ loginLocked' = FALSE
    /\ UNCHANGED <<now, loginMeta, rejected>>
    /\ EndFrame
    /\ Note("sessionExpired")

(* ----------------------------- initial states -------------------------- *)
LegacyChat(id, managerId, accountId) ==
    [id |-> id, type |-> "private", username |-> Undefined,
     manager_id |-> managerId, account_id |-> accountId, last_message |-> NoMessage]
LegacyAccount(id, userId) ==
    [id |-> id, user_id |-> userId, username |-> Undefined, username_history |-> <<>>,
     rating |-> 3, category |-> "client", source |-> "private", last_contact |-> id,
     total_messages |-> 1, manager_id |-> NoId]
LegacyManagers == { << [id |-> 1] >>, << [id |-> 1], [id |-> MaxLegacyId] >> }

\* stores left by earlier sessions and earlier versions of the program
StoredChats ==
    { Absent, Corrupt, Json(<<>>),
      Json(<< LegacyChat(1, NoId, MaxLegacyId), LegacyChat(2, 1, NoId) >>),
      Json(<< LegacyChat(1, MaxLegacyId, NoId), LegacyChat(2, NoId, 1) >>) }
StoredManagers == { Absent, Corrupt } \cup { Json(m) : m \in LegacyManagers }
InitStores ==
    { [accounts |-> IF m.k = "json" THEN Json(<< LegacyAccount(1, 1) >>) ELSE Absent,
       chats |-> c, managers |-> m, transfers |-> Absent,
       version |-> v, seeded |-> IF Len(m.v) > 1 THEN 1 ELSE 0,
       config |-> Absent, keywords |-> Absent, members |-> Absent, loggedIn |-> TRUE,
       meta |-> NoMeta] :
         c \in StoredChats, m \in StoredManagers, v \in {0, 3} }

\* AppProvider mounts with this store
InitWith(store) ==
    /\ now = MaxLegacyId + 1
    /\ ls = store
    /\ managers = <<>>
    /\ activeManager = NoId
    /\ chats = <<>>
    /\ accounts = <<>>
    /\ transferRecords = <<>>
    /\ form = EmptyForm
    /\ editing = NoId
    /\ isFormOpen = FALSE
    /\ formError = FALSE
    /\ pending = MountEffects
    /\ snap = [managers |-> <<>>, chats |-> <<>>, accounts |-> <<>>, activeManager |-> NoId]
    /\ touched = {}
    /\ crashed = FALSE
    /\ lastOp = "other"
    /\ before = NoBefore
    /\ upserts = NoRun
    /\ repairSeen = <<>>
    /\ migRuns = 0
    /\ migFirst = store
    /\ isAuthenticated = TRUE
    /\ authPc = "idle"
    /\ keywords = <<>>
    /\ reading = NoRead
    /\ configMigrating = "idle"
    /\ apiConfig = "empty"
    /\ configLoading = FALSE
    /\ serverConfig = FALSE
    /\ activeBusinessChat = NoId
    /\ messagesOf = NoId
    /\ sending = {}
    /\ inflight = {}
    /\ chatMembers = <<>>
    /\ sendTimer = NoTimer
    /\ activeChat = NoChat
    /\ processedRef = {}
    /\ loginLocked = FALSE
    /\ loginMeta = 0
    /\ rejected = 0

Effects ==
    \/ InitialLoadEffect
    \/ ActiveManagerEffect
    \/ LegacyAccountsEffect
    \/ SeedSecondManagerEffect
    \/ RepairEffect
    \/ ChatMembersEffect

(* ------------- Spec: owners, chats and the accounts' owner ------------- *)
NewAccount(userId, username, category, managerId) ==
    [user_id |-> userId, username |-> username, username_history |-> <<>>,
     rating |-> 1, category |-> category, source |-> "private", last_contact |-> now,
     total_messages |-> 0, manager_id |-> managerId]
Updates(userId, username, rating, managerId) ==
    [user_id |-> userId, username |-> username, rating |-> rating, manager_id |-> managerId]

Init == \E store \in InitStores : InitWith(store)

Next ==
    \/ Effects
    \/ Len(managers) < MaxManagers /\ addManager
    \/ \E id \in Ids(managers) : updateManager(id)
    \/ \E id \in Ids(managers) : deleteManager(id)
    \/ \E m \in Ids(managers) : setActiveManager(m)
    \/ /\ Len(chats) < MaxChats
       /\ \E managerId \in Ids(managers) :
             addChat(managerId, [type |-> "group", username |-> Undefined])

Spec == Init /\ [][Next]_vars

(* --------------- SpecMigrate: the migration as a function --------------- *)
\* migrateToManagers applied to the store as it stands, whatever its marker
Migrate ==
    /\ migRuns < MaxMigRuns
    /\ \E t \in Clock :
       LET mig == migrateToManagers(ls, t) IN
       /\ now' = t
       /\ ls' = mig.store
       /\ managers' = IF mig.setManagers THEN mig.managers ELSE managers
       /\ chats' = IF mig.setChats THEN mig.chats ELSE chats
       /\ migRuns' = migRuns + 1
       /\ migFirst' = IF migRuns = 0 THEN mig.store ELSE migFirst
    /\ Note("other")
    /\ UNCHANGED <<activeManager, accounts, pending, snap, touched, crashed,
                   upserts, repairSeen>>
    /\ UNCHANGED <<TransferVars, SessionVars>>

MigStoredChats == StoredChats \cup { JsonNull, Json(<< LegacyChat(1, NoId, NoId) >>) }
MigStoredManagers == StoredManagers \cup { JsonNull, Json(<<>>) }
MigStores ==
    { [accounts |-> Absent, chats |-> c, managers |-> m, transfers |-> Absent,
       version |-> v, seeded |-> 0,
       config |-> Absent, keywords |-> Absent, members |-> Absent, loggedIn |-> TRUE,
       meta |-> NoMeta] :
         c \in MigStoredChats, m \in MigStoredManagers, v \in 0..3 }

InitMigrate ==
    \E store \in MigStores :
       /\ InitWith(store)

NextMigrate == Migrate

SpecMigrate == InitMigrate /\ [][NextMigrate]_vars

(* ------------------------------ properties ----------------------------- *)
ValidOwner(id) == id \in Ids(managers)
RanRepair == lastOp \in {"repairWrote", "repairKept"}

\* C4: when the repair effect has run with a non-empty managers collection,
\* every chat of the resulting collection is owned by a current manager (and
\* by one of the managers the pass ran with).
RepairPostcondition ==
    RanRepair =>
        \A i \in DOMAIN chats :
            /\ ValidOwner(chats[i].manager_id)
            /\ chats[i].manager_id \in Ids(repairSeen)

\* the pass rewrote a stored legacy chat
RepairRewroteLegacyChat ==
    /\ lastOp = "repairWrote"
    /\ \E i \in DOMAIN chats : chats[i].account_id # NoId

\* C5: the repair pass is idempotent: run again with the same managers on the
\* chats it has just produced, it returns the same chats and writes nothing.
RepairIdempotent ==
    RanRepair =>
        LET again == RepairChats(chats, repairSeen) IN
        /\ again.chats = chats
        /\ ~again.wrote

\* the pass changed the chats and persisted them
RepairWroteChats ==
    /\ lastOp = "repairWrote"
    /\ ls.chats = Json(chats)
    /\ chats # <<>>

\* C6: in every quiescent state with a manager, every chat's owner and every
\* account's owner (when set) is a current manager.
ReferentialIntegrity ==
    (Ready /\ managers # <<>>) =>
        /\ \A i \in DOMAIN chats : ValidOwner(chats[i].manager_id)
        /\ \A i \in DOMAIN accounts :
              accounts[i].manager_id # NoId => ValidOwner(accounts[i].manager_id)

\* C7: migrateToManagers run again on the store it has migrated leaves the
\* persisted managers, the persisted chats and the schema marker as the first
\* run left them.
MigrationIdempotent ==
    migRuns >= 2 =>
        /\ ls.managers = migFirst.managers
        /\ ls.chats = migFirst.chats
        /\ ls.version = migFirst.version

\* the first run created the manager, a later run happened at a later time
MigratedTwiceLater ==
    /\ migRuns >= 2
    /\ ls.version = 3
    /\ ls.managers.k = "json"
    /\ ls.managers.v # <<>>
    /\ ls.managers.v[1].id > MaxLegacyId
    /\ now > ls.managers.v[1].id

(* ---------- SpecAccounts: one contact per identity, usernames ---------- *)
\* user ids are chat ids: the chat view calls createAccountFromChat(chat, chat.id),
\* ContactModal saves with user_id = chat.id
UpdateNames == {AbsentS, Undefined, "johnsmith", "anna_j", Placeholder}

InitAccounts == InitWith(EmptyStore)

NextAccounts ==
    \/ Effects
    \/ \E i \in 1..Min2(2, Len(chats)) :
          /\ \A j \in DOMAIN accounts : accounts[j].total_messages < MaxMessages
          /\ \/ Len(accounts) < MaxAccounts
             \/ \E j \in DOMAIN accounts : accounts[j].user_id = chats[i].id
          /\ createAccountFromChat(chats[i], chats[i].id)
    \/ /\ Len(accounts) < MaxAccounts
       /\ chats # <<>>
       /\ addAccount(NewAccount(chats[1].id, Undefined, "lead", NoId))
    \/ \E id \in Ids(accounts), name \in UpdateNames :
          /\ \A j \in DOMAIN accounts : Len(accounts[j].username_history) < MaxHistory
          /\ updateAccount(id, Updates(AbsentN, name, AbsentN, AbsentN))
    \/ \E id \in Ids(accounts) : deleteAccount(id)

SpecAccounts == InitAccounts /\ [][NextAccounts]_vars

\* C1: no two account records share a user_id.
IdentityUnique ==
    \A i, j \in DOMAIN accounts :
        accounts[i].user_id = accounts[j].user_id => i = j

\* C2: after a run of createAccountFromChat calls with one senderId that began
\* by creating the record, exactly one record has that user_id and its
\* total_messages is the number of distinct patches (chat, timestamp) applied.
UpsertCountsDistinctPatches ==
    upserts.sender # NoId =>
        LET same == {i \in DOMAIN accounts : accounts[i].user_id = upserts.sender} IN
        /\ Cardinality(same) = 1
        /\ \A i \in same : accounts[i].total_messages = Cardinality(upserts.patches)

\* C3: createAccountFromChat repeated with the same senderId, chat and
\* timestamp leaves the accounts, in memory and persisted, as they were.
RepeatedUpsertIsNoop ==
    lastOp = "createAccountFromChatAgain" =>
        /\ accounts = before.accounts
        /\ ls.accounts = before.lsAccounts

(* ------------- SpecHistory: the bound of username_history -------------- *)
InitHistory == InitWith(EmptyStore)

NextHistory ==
    \/ Effects
    \/ /\ accounts = <<>>
       /\ chats # <<>>
       /\ createAccountFromChat(chats[1], chats[1].id)
    \/ \E id \in Ids(accounts), name \in {"johnsmith", "john_smith"} :
          updateAccount(id, Updates(AbsentN, name, AbsentN, AbsentN))

SpecHistory == InitHistory /\ [][NextHistory]_vars

InitNames == InitWith(EmptyStore)

NextNames ==
    \/ Effects
    \/ /\ accounts = <<>>
       /\ \E i \in DOMAIN chats : createAccountFromChat(chats[i], chats[i].id)
    \/ \E id \in Ids(accounts), name \in UpdateNames :
          /\ \A j \in DOMAIN accounts : Len(accounts[j].username_history) < MaxHistory
          /\ updateAccount(id, Updates(AbsentN, name, AbsentN, AbsentN))

SpecNames == InitNames /\ [][NextNames]_vars

\* C9: after username changes through updateAccount, no entry of
\* username_history equals the account's current username.
HistoryExcludesCurrent ==
    \A i \in DOMAIN accounts :
        \A k \in DOMAIN accounts[i].username_history :
            accounts[i].username_history[k].username # accounts[i].username

(* ---------------- SpecTransfers: the transfer form --------------------- *)
supplierOptions == {accounts[i].id : i \in {j \in DOMAIN accounts :
                        accounts[j].category \in {"partner", "client", "other"}}}
clientOptions == {accounts[i].id : i \in {j \in DOMAIN accounts :
                        accounts[j].category \in {"lead", "client"}}}

\* contacts saved by an earlier session: one selectable on both sides of a
\* transfer, one as client only
StoredContacts ==
    << [LegacyAccount(1, 1) EXCEPT !.category = "client"],
       [LegacyAccount(2, 2) EXCEPT !.category = "lead"] >>

InitTransfers == InitWith([EmptyStore EXCEPT !.accounts = Json(StoredContacts)])

NextTransfers ==
    \/ Effects
    \/ openForm
    \/ \E value \in supplierOptions \cup {EmptySel} : setFormSupplier(value)
    \/ \E value \in clientOptions \cup {EmptySel} : setFormClient(value)
    \/ (Len(transferRecords) < MaxTransfers \/ editing # NoId) /\ handleSubmit
    \/ \E i \in DOMAIN transferRecords : startEdit(transferRecords[i])
    \/ \E i \in DOMAIN transferRecords : cycleStatus(transferRecords[i])
    \/ resetStatus
    \/ \E id \in Ids(transferRecords) : deleteTransferRecord(id)

SpecTransfers == InitTransfers /\ [][NextTransfers]_vars

\* C10: no transfer record has its supplier equal to its client, in memory or
\* persisted; a submit with equal supplier and client shows the form error and
\* leaves the collection and its persisted copy as they were.
TransferPartiesDiffer ==
    /\ \A i \in DOMAIN transferRecords :
          transferRecords[i].supplier_account_id # transferRecords[i].client_account_id
    /\ \A i \in DOMAIN ls.transfers.v :
          ls.transfers.v[i].supplier_account_id # ls.transfers.v[i].client_account_id
    /\ lastOp = "rejectedSame" =>
          /\ formError
          /\ transferRecords = before.transfers
          /\ ls.transfers = before.lsTransfers

\* an edit of a stored record was submitted with supplier = client and rejected
EditRejectedForSameParty ==
    /\ lastOp = "rejectedSame"
    /\ editing # NoId
    /\ transferRecords # <<>>
    /\ form.supplier_account_id = form.client_account_id
    /\ form.supplier_account_id # EmptySel

(* ------------- SpecSession: sign-in, sign-out and the store ------------ *)
\* stores a page load can find: of a signed-in session, of a version without
\* sign-in, and an empty one
SessionStores ==
    { [EmptyStore EXCEPT !.loggedIn = l, !.config = c, !.accounts = a,
                         !.managers = IF a = Absent THEN Absent ELSE Json(<< [id |-> 1] >>),
                         !.version = IF a = Absent THEN 0 ELSE 3] :
        l \in BOOLEAN, c \in {Absent, Corrupt, Json("valid")},
        a \in {Absent, Json(<< LegacyAccount(1, 1) >>)} }

InitSession ==
    \E store \in SessionStores :
       /\ now = MaxLegacyId + 1
       /\ ls = store
       /\ managers = <<>>
       /\ activeManager = NoId
       /\ chats = <<>>
       /\ accounts = <<>>
       /\ transferRecords = <<>>
       /\ form = EmptyForm
       /\ editing = NoId
       /\ isFormOpen = FALSE
       /\ formError = FALSE
       /\ pending = <<>>
       /\ snap = [managers |-> <<>>, chats |-> <<>>, accounts |-> <<>>, activeManager |-> NoId]
       /\ touched = {}
       /\ crashed = FALSE
       /\ lastOp = "other"
       /\ before = NoBefore
       /\ upserts = NoRun
       /\ repairSeen = <<>>
       /\ migRuns = 0
       /\ migFirst = store
       /\ isAuthenticated = FALSE
       /\ authPc = "mount"
       /\ keywords = <<>>
       /\ reading = NoRead
       /\ configMigrating = "idle"
       /\ apiConfig = "empty"
       /\ configLoading = FALSE
       /\ serverConfig \in BOOLEAN
       /\ activeBusinessChat = NoId
       /\ messagesOf = NoId
       /\ sending = {}
       /\ inflight = {}
       /\ chatMembers = <<>>
       /\ sendTimer = NoTimer
       /\ activeChat = NoChat
       /\ processedRef = {}
       /\ loginLocked = FALSE
       /\ loginMeta = 0
       /\ rejected = 0

NextSession ==
    \/ checkAuth
    \/ \E outcome \in {"ok", "refused", "error"} : checkAuthDone(outcome)
    \/ login
    \/ \E ok \in BOOLEAN : csrfDone(ok)
    \/ \E outcome \in {"ok", "rejected", "error"} : loginDone(outcome)
    \/ logout
    \/ \E ok \in BOOLEAN : logoutDone(ok)
    \/ \E check \in {"complete", "incomplete", "refused", "error"} : migrateConfigToServer(check)
    \/ \E post \in {"ok", "refused", "error"} : migrateConfigToServerPosted(post)
    \/ \E answer \in {"ok", "unauthorized", "refused", "error"} : loadApiConfigFromServerDone(answer)
    \/ loadBusinessAccounts401
    \/ Effects
    \/ \E id \in Ids(managers) : deleteManager(id)

SpecSession == InitSession /\ [][NextSession]_vars

StoreCleared ==
    /\ ls.config = Absent /\ ls.accounts = Absent /\ ls.chats = Absent
    /\ ls.managers = Absent /\ ls.transfers = Absent /\ ls.keywords = Absent
    /\ ls.members = Absent /\ ls.version = 0
HasData(store) ==
    \/ store.accounts # Absent \/ store.chats # Absent \/ store.managers # Absent
    \/ store.transfers # Absent \/ store.keywords # Absent \/ store.members # Absent
    \/ store.version # 0

\* C11: when logout has completed, after a successful or a failed request,
\* no persisted collection and no schema marker is left in the store and
\* isAuthenticated is false.
LogoutClearsStore ==
    lastOp \in {"logout", "logoutFailed"} => StoreCleared /\ ~isAuthenticated

\* the logout request failed and the contacts stored before it are gone
FailedLogoutClearedContacts ==
    /\ lastOp = "logoutFailed"
    /\ before.lsAccounts # Absent
    /\ ls.accounts = Absent
    /\ ls.chats = Absent

\* C12: only logout wipes the store: a step that takes the stored collections
\* and the schema marker away is the completion of logout.
OnlyLogoutWipes ==
    [][(HasData(ls) /\ ~HasData(ls')) => lastOp' \in {"logout", "logoutFailed"}]_vars

(* ------------- SpecLoad: a session start on any stored content ---------- *)
\* a keyword is the sequence of its characters
Vip == << "v", "i", "p" >>
StoredTransfer == [id |-> 1, supplier_account_id |-> 1, client_account_id |-> 2,
                   status |-> "new", created_at |-> 1]
StoredMember == [chat_id |-> 2, user_id |-> 21, role |-> "member"]
Payloads(v) == { Absent, Corrupt, Json(v) }
LoadStores ==
    { [EmptyStore EXCEPT !.accounts = a, !.transfers = tr, !.keywords = kw,
                         !.managers = m, !.chats = c, !.members = mb, !.version = v] :
        a \in Payloads(<< LegacyAccount(1, 1) >>),
        tr \in Payloads(<< StoredTransfer >>),
        kw \in Payloads(<< Vip >>),
        m \in Payloads(<< [id |-> 1] >>),
        c \in Payloads(<< LegacyChat(1, NoId, NoId), LegacyChat(2, 1, NoId) >>),
        mb \in Payloads(<< StoredMember >>),
        v \in {0, 3} }

InitLoad == \E store \in LoadStores : InitWith(store)
NextLoad == Effects
SpecLoad == InitLoad /\ [][NextLoad]_vars
\* React runs every scheduled effect
SpecLoadLive == SpecLoad /\ WF_vars(NextLoad)

InitialLoadRan == isAuthenticated /\ (pending = <<>> \/ Head(pending) # "initialLoad")
MountCommitDone == InitialLoadRan /\ "chatMembersLoad" \notin {pending[i] : i \in DOMAIN pending}
Loaded(stored, state) == state = (IF stored.k = "json" THEN stored.v ELSE <<>>)

\* C13: loading at session start never throws; a corrupt payload of a
\* collection is taken as the empty collection and the collections after it
\* in the load order are loaded as stored.
LoadingNeverThrows ==
    InitialLoadRan =>
        /\ ~crashed
        /\ Loaded(ls.transfers, transferRecords)
        /\ Loaded(ls.keywords, keywords)
        /\ MountCommitDone => Loaded(ls.members, chatMembers)

\* C18: on a start with a stored schema version below 3, once the boot effect
\* has run the migration is complete: the chats are persisted and the marker
\* is 3, whatever else was loaded.
MigrationCompletesFirst ==
    (InitialLoadRan /\ migFirst.version < 3) =>
        /\ ls.version = 3
        /\ ls.chats.k = "json"
        /\ migRuns = 1

\* C19: a started session eventually is ready: migrated, loaded, repaired,
\* with no boot effect pending and not aborted.
BootReady ==
    /\ Ready
    /\ ls.version = 3 \/ migFirst.version = 3
    /\ managers # <<>> => repairSeen = managers
SessionBecomesReady == <>BootReady

(* ------------- SpecBusiness: selecting chats and loading messages ------- *)
BusinessChats == 1..MaxBusinessChats
InitBusiness == InitWith(EmptyStore)
NextBusiness ==
    \/ Effects
    \/ \E c \in BusinessChats \cup {NoId} : setActiveBusinessChat(c)
    \/ \E c \in BusinessChats, ok \in BOOLEAN : loadBusinessMessagesDone(c, ok)
    \/ sendBusinessMessage
    \/ \E c \in BusinessChats, ok \in BOOLEAN : sendBusinessMessageSent(c, ok)
SpecBusiness == InitBusiness /\ [][NextBusiness]_vars

\* C14: a response to a message load is applied only when it is for the chat
\* that is active when it arrives; a load the selection has left is discarded.
SupersededLoadDiscarded ==
    lastOp = "messagesLoaded" => messagesOf = activeBusinessChat

(* ----------- SpecModal: the contact dialog saved for one chat ---------- *)
Stars == 1..5

InitModal == InitWith(EmptyStore)

\* every save is for the first chat of the list
NextModal ==
    \/ Effects
    \/ /\ chats # <<>>
       /\ Len(accounts) < MaxAccounts
       /\ \E stars \in Stars : AccountModalHandleSubmit(chats[1], stars)
    \/ /\ chats # <<>>
       /\ accounts = <<>>
       /\ createAccountFromChat(chats[1], chats[1].id)
    \/ \E m \in Ids(managers) : setActiveManager(m)

SpecModal == InitModal /\ [][NextModal]_vars

\* C15: repeated saves of the contact dialog for the same chat never add a
\* second record: the contact is created once and later saves update it.
ContactCreatedOnce == Len(accounts) <= 1

(* ------------- SpecRating: the rating the handlers are given ----------- *)
\* the ratings a caller of the context's handlers can pass (rating: number)
Ratings == 0..6

InitRating == InitWith(EmptyStore)

NextRating ==
    \/ Effects
    \/ /\ Len(accounts) < MaxAccounts
       /\ chats # <<>>
       /\ \E rating \in Ratings :
             addAccount([NewAccount(chats[1].id, chats[1].username, "lead", NoId)
                            EXCEPT !.rating = rating])
    \/ \E id \in Ids(accounts), rating \in Ratings :
          updateAccount(id, Updates(AbsentN, AbsentS, rating, AbsentN))

SpecRating == InitRating /\ [][NextRating]_vars

\* C16: every account's rating, in memory and persisted, is an integer in
\* 1..5: addAccount and updateAccount reject or clamp a rating outside [1,5].
RatingInRange ==
    /\ \A i \in DOMAIN accounts : accounts[i].rating \in Stars
    /\ ls.accounts.k = "json" =>
          \A i \in DOMAIN ls.accounts.v : ls.accounts.v[i].rating \in Stars

(* -------------------- SpecKeywords: the keyword list ------------------- *)
\* what is typed into the input of the keywords tab
TypedKeywords ==
    { <<>>, <<" ">>, <<"a">>, <<"A">>, <<" ", "A">>, <<"a", "a">>, <<"a", "A", " ">> }
\* the texts of the files imported
FileTexts ==
    { <<>>, <<" ", ",">>, <<"a">>, <<"A", ",", "a", "a">>, <<";", "a", "A", "\n", "a">>,
      <<"A", "a", "|", " ", "a", "\t", "A">> }

\* stored lists, which the initial load takes as they are
StoredKeywords ==
    { Absent, Json(<< <<"a">> >>), Json(<< <<"a">>, <<"A">>, <<"a", "a">> >>),
      Json(<< <<" ">>, <<"a", " ">> >>) }

\* the store of an earlier session that had two managers
InitKeywords ==
    \E kw \in StoredKeywords :
       InitWith([EmptyStore EXCEPT !.managers = Json(<< [id |-> 1], [id |-> MaxLegacyId] >>),
                                   !.version = 3, !.seeded = 1, !.keywords = kw])

NextKeywords ==
    \/ Effects
    \/ \E newKeyword \in TypedKeywords : addKeyword(newKeyword)
    \/ \E i \in DOMAIN keywords : removeKeyword(keywords[i])
    \/ onFile
    \/ \E text \in FileTexts : onload(text)

SpecKeywords == InitKeywords /\ [][NextKeywords]_vars

\* C17: after a setKeywords call the keywords, and their persisted copy, hold
\* no empty or whitespace-only entry and no two entries equal ignoring case,
\* and of the entries given that are equal ignoring case the first is kept.
KeywordsClean ==
    lastOp = "setKeywords" =>
        LET given == before.arg
            kept == {i \in DOMAIN given :
                        /\ \E k \in DOMAIN given[i] : given[i][k] \notin Whitespace
                        /\ \A j \in 1..(i - 1) :
                              toLowerCase(trim(given[j])) # toLowerCase(trim(given[i]))}
        IN  /\ \A i \in DOMAIN keywords :
                  \E k \in DOMAIN keywords[i] : keywords[i][k] \notin Whitespace
            /\ \A i, j \in DOMAIN keywords :
                  toLowerCase(keywords[i]) = toLowerCase(keywords[j]) => i = j
            /\ keywords = Pick([i \in DOMAIN given |-> trim(given[i])], kept)
            /\ ls.keywords = Json(keywords)

\* a call dropped a blank entry or one equal to an earlier entry ignoring case
SetKeywordsDroppedEntries ==
    /\ lastOp = "setKeywords"
    /\ Len(keywords) < Len(before.arg)
    /\ \E i, j \in DOMAIN before.arg :
          i < j /\ before.arg[i] # before.arg[j]
                /\ toLowerCase(before.arg[i]) = toLowerCase(before.arg[j])

(* --------- the contact of a sender whose username has changed ---------- *)
\* C20: when createAccountFromChat finds the sender's account and the chat's
\* username differs from the stored one, the old username is put at the
\* front of username_history and the stored username becomes the chat's.
MergeRecordsUsernameChange ==
    lastOp \in {"createAccountFromChat", "createAccountFromChatAgain"} =>
        \A k \in DOMAIN before.accounts, c \in DOMAIN chats :
            LET old == before.accounts[k] IN
            ( /\ Len(accounts) = Len(before.accounts)
              /\ accounts[k].total_messages = old.total_messages + 1
              /\ chats[c].id = old.user_id
              /\ Truthy(chats[c].username)
              /\ chats[c].username # old.username )
            => /\ accounts[k].username = chats[c].username
               /\ accounts[k].username_history # <<>>
               /\ accounts[k].username_history[1].username
                     = (IF Truthy(old.username) THEN old.username ELSE Placeholder)

(* ------------- SpecCreate: contacts made from incoming chats ----------- *)
InitCreate == InitWith(EmptyStore)

NextCreate ==
    \/ Effects
    \/ \E i \in DOMAIN chats :
          /\ \A j \in DOMAIN accounts : accounts[j].total_messages < MaxMessages
          /\ \/ Len(accounts) < MaxAccounts
             \/ \E j \in DOMAIN accounts : accounts[j].user_id = chats[i].id
          /\ createAccountFromChat(chats[i], chats[i].id)

SpecCreate == InitCreate /\ [][NextCreate]_vars

\* C21: createAccountFromChat for a senderId without an account appends
\* exactly one account with user_id = senderId, rating 1, total_messages 1,
\* category/source lead/private for a private chat and other/group for any
\* other chat type, and leaves the existing accounts unchanged.
NewSenderAppendsOneAccount ==
    ( /\ lastOp \in {"createAccountFromChat", "createAccountFromChatAgain"}
      /\ upserts.sender # NoId
      /\ \A k \in DOMAIN before.accounts : before.accounts[k].user_id # upserts.sender )
    => /\ Len(accounts) = Len(before.accounts) + 1
       /\ SubSeq(accounts, 1, Len(before.accounts)) = before.accounts
       /\ LET new == accounts[Len(accounts)] IN
          /\ new.user_id = upserts.sender
          /\ new.rating = 1
          /\ new.total_messages = 1
          /\ \A c \in DOMAIN chats :
                chats[c].id = upserts.sender =>
                   /\ new.category = (IF chats[c].type = "private" THEN "lead" ELSE "other")
                   /\ new.source = (IF chats[c].type = "private" THEN "private" ELSE "group")
       /\ ls.accounts = Json(accounts)

\* a sender of a group chat got a contact while another contact existed
GroupSenderAppended ==
    /\ lastOp = "createAccountFromChat"
    /\ before.accounts # <<>>
    /\ Len(accounts) = Len(before.accounts) + 1
    /\ accounts[Len(accounts)].source = "group"
    /\ accounts[Len(accounts)].category = "other"

(* ------------------ the owner the repair pass assigns ------------------ *)
\* what the claim says the pass makes of chat c under the managers mgrs
RepairTarget(c, mgrs) ==
    IF c.manager_id \in Ids(mgrs) THEN c
    ELSE [c EXCEPT !.manager_id = IF c.account_id \in Ids(mgrs)
                                  THEN c.account_id ELSE mgrs[1].id]

\* C22: the repair pass gives a chat whose manager_id is not the id of a
\* current manager its legacy account_id when that is a current manager's
\* id and the first manager's id otherwise, and leaves the other chats as
\* they are.
RepairAssignsLegacyOrFirst ==
    [][(Running("repair") /\ snap.managers # <<>> /\ chats # <<>>) =>
          /\ Len(chats') = Len(chats)
          /\ \A i \in DOMAIN chats : chats'[i] = RepairTarget(chats[i], managers)]_vars

(* ------------------- the owner the migration assigns ------------------- *)
\* what the claim says the migration makes of stored chat c, first being the
\* id of the first manager
MigrationTarget(c, first) ==
    [c EXCEPT !.manager_id = IF c.manager_id # NoId THEN c.manager_id
                             ELSE IF c.account_id # NoId THEN c.account_id
                             ELSE first]

\* C23: migrateToManagers gives every stored chat a manager_id (its own, else
\* its legacy account_id, else the id of the first manager, who is created
\* and persisted when there is none) and drops no stored chat.
MigrationAssignsOwner ==
    [][(ls.chats.k = "json" /\ ls.chats.v # <<>>) =>
          /\ ls'.managers.k = "json"
          /\ ls'.managers.v # <<>>
          /\ (ls.managers.k = "json" /\ ls.managers.v # <<>>) => ls'.managers = ls.managers
          /\ managers' = ls'.managers.v
          /\ ls'.chats.k = "json"
          /\ Len(ls'.chats.v) = Len(ls.chats.v)
          /\ \A i \in DOMAIN ls.chats.v :
                ls'.chats.v[i] = MigrationTarget(ls.chats.v[i], ls'.managers.v[1].id)
          /\ chats' = ls'.chats.v]_vars

(* ------------------ the first username of a contact -------------------- *)
\* C24: when updateAccount sets a username on an account that had none, the
\* account's username_history stays empty: there is no prior username to
\* record.
FirstUsernameLeavesHistoryEmpty ==
    lastOp = "updateAccount" =>
        \A i \in DOMAIN accounts :
            ( /\ ~Truthy(before.accounts[i].username)
              /\ before.accounts[i].username_history = <<>>
              /\ Truthy(accounts[i].username) )
            => accounts[i].username_history = <<>>

(* ------------------- the API config, server and store ------------------ *)
\* C25: loading the API config tries the server first; on any non-2xx answer
\* or failed request the stored config is used instead, and the load never
\* throws or rejects.
ConfigLoadFallsBack ==
    /\ lastOp # "configLoadRejected"
    /\ (lastOp = "configLoadFailed" /\ ls.config.k = "json") => apiConfig = "local"

\* C30: migrateConfigToServer removes the stored config only after a
\* successful migration, so the config is never lost from both places.
ConfigRemovedOnlyWhenOnServer ==
    lastOp \in {"configMigrated", "configAlreadyOnServer"} => serverConfig

(* ------------- SpecPersist: the deferred write of sendMessage ---------- *)
\* useEffect(() => { prevChatsRef.current = chats }, [chats]): once the
\* effects of a render have run, the ref holds the chats of that render
prevChatsRef == snap.chats

SendFrame ==
    /\ UNCHANGED <<crashed, upserts, repairSeen, chatMembers, ViewVars>>
    /\ UNCHANGED <<TransferVars, MigVars, AuthVars, KeywordVars, ConfigVars, BusinessVars>>

\* sendMessage up to its setTimeout: the message becomes the chat's
\* last_message; the messages themselves are kept in memory only
sendMessage(chatId) ==
    /\ Ready
    /\ ~sendTimer.set
    /\ \E t \in Clock :
       /\ now' = t
       /\ chats' = Map(chats, LAMBDA c :
                       IF c.id = chatId
                       THEN [c EXCEPT !.last_message = [id |-> t, from_me |-> TRUE]]
                       ELSE c)
    /\ sendTimer' = [set |-> TRUE, ref |-> prevChatsRef]
    /\ UNCHANGED <<ls, managers, accounts, activeManager>>
    /\ Rerender({"chats"})
    /\ Note("sendMessage")
    /\ SendFrame

\* the timer of sendMessage stores prevChatsRef.current. Nothing orders the
\* timer after the effect that refreshes the ref: early, the timer runs before
\* the effects of the render sendMessage asked for, else after them
sendMessageTimeout(early) ==
    /\ sendTimer.set
    /\ IF early THEN lastOp = "sendMessage" /\ pending # <<>> ELSE pending = <<>>
    /\ ls' = [ls EXCEPT !.chats = Json(IF early THEN sendTimer.ref ELSE prevChatsRef)]
    /\ sendTimer' = NoTimer
    /\ Note("sendMessageStored")
    /\ UNCHANGED <<now, managers, activeManager, chats, accounts, pending, snap, touched>>
    /\ SendFrame

InitPersist == InitWith(EmptyStore)

NextPersist ==
    \/ Effects
    \/ \E chatId \in Ids(chats) : sendMessage(chatId)
    \/ \E early \in BOOLEAN : sendMessageTimeout(early)
    \/ \E id \in Ids(managers) : deleteManager(id)
    \/ /\ Len(chats) < MaxChats + 1
       /\ \E managerId \in Ids(managers) :
             addChat(managerId, [type |-> "group", username |-> Undefined])

SpecPersist == InitPersist /\ [][NextPersist]_vars

setActiveChat(chat) ==
    /\ Ready
    /\ activeChat' = chat
    /\ processedRef' = IF chat = NoChat THEN {} ELSE processedRef
    /\ UNCHANGED <<now, ls, managers, activeManager, chats, accounts>>
    /\ Rerender(IF chat # activeChat /\ chat # NoChat THEN {"activeChat"} ELSE {})
    /\ Note("other")
    /\ ManagerFrame

\* ChatMessages: useEffect on [activeChat, createAccountFromChat]
ChatMessagesEffect ==
    /\ Running("chatMessages")
    /\ IF activeChat # NoChat /\ activeChat.id \notin processedRef
       THEN /\ createAccountFromChatUpdater(activeChat, activeChat.id)
            /\ processedRef' = processedRef \cup {activeChat.id}
            /\ UNCHANGED <<managers, chats, activeManager>>
            /\ Commit({"accounts"})
       ELSE /\ UNCHANGED <<now, ls, accounts, managers, chats, activeManager, upserts,
                           processedRef>>
            /\ Note("other")
            /\ Commit({})
    /\ UNCHANGED <<activeChat, crashed, repairSeen, chatMembers, sendTimer>>
    /\ UNCHANGED <<TransferVars, MigVars, AuthVars, KeywordVars, ConfigVars, BusinessVars>>

InitView == InitWith(EmptyStore)

NextView ==
    \/ Effects
    \/ ChatMessagesEffect
    \/ setActiveChat(NoChat)
    \/ \E i \in DOMAIN chats :
          /\ \A j \in DOMAIN accounts : accounts[j].total_messages < MaxMessages
          /\ \/ Len(accounts) < MaxAccounts
             \/ \E j \in DOMAIN accounts : accounts[j].user_id = chats[i].id
          /\ setActiveChat(chats[i])

SpecView == InitView /\ [][NextView]_vars

\* C27: within one session the chat view invokes createAccountFromChat at
\* most once per chat id, however often the chat is activated again, so no
\* contact made by the view ever counts more than its first message.
ReopenedChatCountedOnce ==
    \A i \in DOMAIN accounts : accounts[i].total_messages <= 1


(* ------------------- SpecLogin: the login lockout ---------------------- *)
MaxLockouts == 2        \* lock periods the clock may pass through

\* Date.now() where the lock matters: the last value read, a later one, or
\* the instant the stored lock ends
LoginClock ==
    {now} \cup Clock \cup (IF ls.meta.lockedUntil > now THEN {ls.meta.lockedUntil} ELSE {})

\* Login.onSubmit: login is not called while the form shows the lock
onSubmit ==
    /\ ~loginLocked
    /\ loginAt(LoginClock)

\* one tick of the lock countdown interval
lockCountdown ==
    /\ authPc # "mount"
    /\ \E t \in LoginClock :
          /\ now' = t
          /\ IF ls.meta.lockedUntil # 0
             THEN IF t < ls.meta.lockedUntil
                  THEN /\ loginLocked' = TRUE
                       /\ UNCHANGED <<ls, rejected>>
                  ELSE /\ loginLocked' = FALSE
                       /\ ls' = [ls EXCEPT !.meta = NoMeta]
                       /\ rejected' = 0
             ELSE /\ loginLocked' = FALSE
                  /\ UNCHANGED <<ls, rejected>>
    /\ UNCHANGED <<isAuthenticated, authPc, loginMeta>>
    /\ KeepApp
    /\ AuthGhosts
    /\ Note("lockCountdown")

\* the page is loaded again while nobody is logged in: AuthProvider is
\* constructed anew, the store stays
reload ==
    /\ authPc = "idle"
    /\ ~isAuthenticated
    /\ authPc' = "mount"
    /\ loginLocked' = FALSE
    /\ UNCHANGED <<now, ls, isAuthenticated, loginMeta, rejected>>
    /\ KeepApp
    /\ AuthGhosts
    /\ Note("reload")

InitLogin ==
    /\ InitSession
    /\ ls = [EmptyStore EXCEPT !.loggedIn = FALSE]
    /\ ~serverConfig

NextLogin ==
    \/ checkAuth
    \/ now <= MaxTime + (MaxLockouts - 1) * LockMs /\ onSubmit
    \/ \E ok \in BOOLEAN : csrfDone(ok)
    \/ \E outcome \in {"ok", "rejected", "error"} : loginDoneAt(outcome, LoginClock)
    \/ lockCountdown
    \/ reload
    \/ logout
    \/ \E ok \in BOOLEAN : logoutDone(ok)

SpecLogin == InitLogin /\ [][NextLogin]_vars

\* C28: the stored lock is in force exactly when the logins the server
\* rejected since the last success or lock expiry number MAX_ATTEMPTS; a
\* success or the expiry of the lock starts the count again at 0.
LockedExactlyAtFive ==
    (ls.meta.lockedUntil # 0 /\ now < ls.meta.lockedUntil) <=> (rejected = MAX_ATTEMPTS)


(* ---------------- SpecMembers: members added in bulk ------------------- *)
addMembersBulk(chatId, userIds) ==
    /\ Ready
    /\ userIds # <<>>
    /\ LET ofChat == SelectSeq(chatMembers, LAMBDA m : m.chat_id = chatId)
           existingSet == {ofChat[i].user_id : i \in DOMAIN ofChat}
           fresh == SelectSeq(userIds, LAMBDA id : id \notin existingSet)
           additions == [idx \in 1..Len(fresh) |->
                           [chat_id |-> chatId, user_id |-> fresh[idx],
                            role |-> IF idx = 1 /\ ofChat = <<>> THEN "creator" ELSE "member"]]
           updated == chatMembers \o additions
       IN  /\ chatMembers' = updated
           /\ ls' = [ls EXCEPT !.members = Json(updated)]
    /\ UNCHANGED <<now, managers, activeManager, chats, accounts>>
    /\ Rerender({})
    /\ Note("addMembersBulk")
    /\ UNCHANGED <<crashed, upserts, repairSeen, sendTimer>>
    /\ UNCHANGED <<TransferVars, MigVars, AuthVars, KeywordVars, ConfigVars, BusinessVars,
                   ViewVars>>

\* the ids BotChatsAdmin.handleFile reads from a file: every positive number
\* of the text, in its order, repeated where the text repeats it
UserIdLists == { <<7>>, <<8, 7>>, <<7, 7>>, <<8, 7, 8>> }

InitMembers == InitWith(EmptyStore)

NextMembers ==
    \/ Effects
    \/ /\ Len(chats) < MaxChats + MaxManagers + 1
       /\ \E managerId \in Ids(managers) :
             addChat(managerId, [type |-> "group", username |-> Undefined])
    \/ \E i \in DOMAIN chats, userIds \in UserIdLists :
          /\ chats[i].type = "group"
          /\ addMembersBulk(chats[i].id, userIds)

SpecMembers == InitMembers /\ [][NextMembers]_vars

\* C29: after any sequence of addMembersBulk calls chatMembers holds at most
\* one entry per (chat_id, user_id) pair, also when a call's userIds repeat
\* an id, and at most one member of a chat has the role 'creator'.
MembersUniqueOneCreator ==
    \A i, j \in DOMAIN chatMembers :
       (i # j /\ chatMembers[i].chat_id = chatMembers[j].chat_id)
       => /\ chatMembers[i].user_id # chatMembers[j].user_id
          /\ ~(chatMembers[i].role = "creator" /\ chatMembers[j].role = "creator")

====
